---- MODULE Spec2Model ----
(***************************************************************************)
(* Verification model of the extension tester:                             *)
(*   - ExtensionValidator (src/exttester/validator.py)                     *)
(*   - TestingPipeline    (src/pipeline.py)                                *)
(* The extension on disk is the input; the validator is an object with     *)
(* fields errors / warnings / browser_type / detected_browsers; the        *)
(* pipeline is a sequential program whose position is pc.                  *)
(***************************************************************************)
EXTENDS Integers, Sequences, FiniteSets, TLC

VARIABLES
    ext,                \* the extension directory under test (path, manifest.json, files)
    v_errors,           \* ExtensionValidator.errors
    v_warnings,         \* ExtensionValidator.warnings
    v_browser_type,     \* ExtensionValidator.browser_type
    v_detected,         \* ExtensionValidator.detected_browsers
    v_ret,              \* outcome of the latest validate_extension call
    v_calls,            \* number of validate_extension calls made on the validator
    browsers,           \* TestingPipeline.browsers
    pc,                 \* position of TestingPipeline.run
    idx,                \* index of the per-browser loop of run
    stages,             \* results['stages']
    stage4_results,     \* local stage4_results of run
    stage5_results,     \* local stage5_results of run
    summary,            \* results['summary']
    calls,              \* log of the stage functions run() has invoked: stage_num, the
                        \* loop variable (key), the browser passed, what it returned
    d_log,              \* log of the direct detect_browser_compatibility calls
    weights,            \* ScoringEngine.weights
    data,               \* the extension_data record the caller of the engine holds
    score_log,          \* log of the calculate_final_score calls
    grade_call,         \* the latest direct _score_to_grade call: score and grade
    scan_call,          \* the latest scan_extension call: extension and result
    size_call,          \* the latest ExtensionSizeAnalyzer.analyze call: analyzer and report
    dep_call            \* the latest DependencyChecker.analyze call: extension and report

vars == <<ext, v_errors, v_warnings, v_browser_type, v_detected, v_ret, v_calls,
          browsers, pc, idx, stages, stage4_results, stage5_results, summary, calls,
          d_log, weights, data, score_log, grade_call, scan_call, size_call, dep_call>>

validatorVars == <<v_errors, v_warnings, v_browser_type, v_detected, v_ret, v_calls>>
pipelineVars == <<browsers, pc, idx, stages, stage4_results, stage5_results, summary, calls>>
scoringVars == <<weights, data, score_log, grade_call, scan_call>>
analyzerVars == <<size_call, dep_call>>
toolVars == <<d_log, scoringVars, analyzerVars>>

(***************************************************************************)
(* Bounds                                                                  *)
(***************************************************************************)
MaxDeviations == 2      \* fields in which the extension differs from the minimal one
MaxRefs == 1            \* file references per manifest list (icons, js, css, scripts)
MaxScripts == 1         \* entries of content_scripts
MaxHosts == 1           \* entries of host_permissions
MaxCalls == 2           \* validate_extension calls on one validator
MaxBrowsers == 2        \* length of the requested browser list
MaxDetects == 2         \* direct detect_browser_compatibility calls on one validator
MaxScoreCalls == 3      \* calculate_final_score calls on one engine
MaxPermissions == 2     \* entries of the permissions list of a scanned manifest
ManyFiles == 20         \* source files of a large scanned extension
MaxSizedFiles == 2      \* files of a directory handed to the size analyzer

(***************************************************************************)
(* Helpers                                                                 *)
(***************************************************************************)
SeqsUpTo(S, n) == UNION {[1..k -> S] : k \in 0..n}

Range(s) == {s[k] : k \in 1..Len(s)}

RECURSIVE Flatten(_)
Flatten(ss) == IF ss = <<>> THEN <<>> ELSE Head(ss) \o Flatten(Tail(ss))

RECURSIVE SumSeq(_)
SumSeq(s) == IF s = <<>> THEN 0 ELSE Head(s) + SumSeq(Tail(s))

(***************************************************************************)
(* BrowserType                                                             *)
(***************************************************************************)
CHROME == "Chrome"
FIREFOX == "Firefox"
EDGE == "Edge"
OPERA == "Opera"
SAFARI == "Safari"
UNKNOWN == "Unknown"
ALL == {CHROME, FIREFOX, EDGE, OPERA, SAFARI}

(***************************************************************************)
(* The extension on disk.  Paths name files below the extension root;      *)
(* ExistingFiles are the ones that exist.                                  *)
(***************************************************************************)
ExistingFiles == {"present.js"}
Paths == {"present.js", "missing.js"}
NoPath == ""

HostPatterns == {"<all_urls>", "*://*/*", "https://example.com/*"}
CspTokens == {"unsafe-eval", "unsafe-inline"}
PermCounts == {1, 11}

\* {"manifest_version": 3, "name": "T", "version": "1.0"} in an existing directory
MinimalExtension ==
    [ is_dir |-> TRUE, has_manifest |-> TRUE, json |-> "dict",
      mv |-> 3, name |-> "str", version |-> "str", description |-> "absent",
      icons_kind |-> "absent", icons |-> <<>>,
      cs_kind |-> "absent", cs |-> <<>>,
      bg_kind |-> "absent", bg_sw |-> NoPath, bg_has_scripts |-> FALSE,
      bg_scripts |-> <<>>, bg_page |-> NoPath,
      perms_kind |-> "absent", perms_n |-> 0, perms_nonstr |-> 0,
      hp_kind |-> "absent", hp |-> <<>>,
      csp_kind |-> "absent", csp |-> {},
      ec_kind |-> "absent", ec_matches |-> {},
      bss |-> FALSE, applications |-> FALSE,
      action |-> FALSE, page_action |-> FALSE, browser_action |-> FALSE,
      mentions_safari |-> FALSE, size_mb |-> 1 ]

(***************************************************************************)
(* ExtensionValidator: the checks.  A check maps the validator fields      *)
(* st = [errors, warnings, detected] to their value after the check.       *)
(***************************************************************************)
Exists(p) == p \in ExistingFiles

AddErrors(st, msgs) == [st EXCEPT !.errors = @ \o msgs]
AddWarnings(st, msgs) == [st EXCEPT !.warnings = @ \o msgs]

If(c, msg) == IF c THEN <<msg>> ELSE <<>>

\* one message per element of refs that does not exist, in order
RECURSIVE NotFound(_, _)
NotFound(prefix, refs) ==
    IF refs = <<>> THEN <<>>
    ELSE If(~Exists(Head(refs)), prefix \o Head(refs)) \o NotFound(prefix, Tail(refs))

RECURSIVE Repeat(_, _)
Repeat(msg, n) == IF n <= 0 THEN <<>> ELSE <<msg>> \o Repeat(msg, n - 1)

\* as CompatibleBrowsers, with Firefox listed for every Manifest v3 extension
CompatibleBrowsers_firefox_always(e) ==
    (IF e.mv \in {2, 3} THEN {CHROME, FIREFOX, EDGE, OPERA} ELSE {})
    \cup (IF e.mentions_safari \/ e.mv = 3 THEN {SAFARI} ELSE {})

CompatibleBrowsers(e) ==
    (IF e.mv \in {2, 3} THEN {CHROME} ELSE {})
    \cup (IF e.mv = 2 THEN {FIREFOX} ELSE {})
    \cup (IF e.mv = 3 /\ e.bss THEN {FIREFOX} ELSE {})
    \cup (IF e.mv \in {2, 3} THEN {EDGE} ELSE {})
    \cup (IF e.mv \in {2, 3} THEN {OPERA} ELSE {})
    \cup (IF e.mentions_safari \/ e.mv = 3 THEN {SAFARI} ELSE {})

detect_browser_compatibility(st, e) ==
    [ AddWarnings(st, If(e.mv = 3 /\ e.bss, "Firefox has limited Manifest v3 support"))
        EXCEPT !.detected = CompatibleBrowsers(e) ]

\* as RequiredFieldErrors, without the isinstance check
RequiredFieldErrors_untyped(field, value) ==
    IF value = "absent" THEN <<"Missing required field '" \o field \o "' in manifest.json">>
    ELSE <<>>

RequiredFieldErrors(field, value) ==
    IF value = "absent" THEN <<"Missing required field '" \o field \o "' in manifest.json">>
    ELSE IF value = "nonstr" THEN <<"Field '" \o field \o "' has wrong type. Expected str">>
    ELSE <<>>

validate_manifest_structure(st, e) ==
    LET errs ==
            (IF e.mv = 0 THEN <<"Missing 'manifest_version' in manifest.json">>
             ELSE If(e.mv \notin {2, 3}, "Invalid manifest_version (must be 2 or 3)"))
            \o RequiredFieldErrors("name", e.name)
            \o RequiredFieldErrors("version", e.version)
            \o If(e.description = "nonstr", "Field 'description' has wrong type. Expected string")
        warns ==
            If(e.description = "absent", "Missing optional field 'description' in manifest.json")
            \o If(e.mv = 3 /\ e.page_action, "'page_action' is deprecated in Manifest v3, use 'action' instead")
            \o If(e.mv = 3 /\ e.browser_action, "'browser_action' is deprecated in Manifest v3, use 'action' instead")
    IN  AddWarnings(AddErrors(st, errs), warns)

RECURSIVE ContentScriptErrors(_)
ContentScriptErrors(scripts) ==
    IF scripts = <<>> THEN <<>>
    ELSE NotFound("Content script not found: ", Head(scripts).js)
         \o NotFound("Content stylesheet not found: ", Head(scripts).css)
         \o ContentScriptErrors(Tail(scripts))

BackgroundFileErrors(e) ==
    IF e.bg_kind # "dict" THEN <<>>
    ELSE IF e.bg_sw # NoPath THEN NotFound("Service worker not found: ", <<e.bg_sw>>)
    ELSE IF e.bg_has_scripts THEN NotFound("Background script not found: ", e.bg_scripts)
    ELSE <<>>

validate_required_files(st, e) ==
    AddErrors(st,
        (IF e.icons_kind = "dict" THEN NotFound("Icon file not found: ", e.icons) ELSE <<>>)
        \o (IF e.cs_kind = "list" THEN ContentScriptErrors(e.cs) ELSE <<>>)
        \o BackgroundFileErrors(e))

validate_permissions(st, e) ==
    AddErrors(st,
        (IF e.perms_kind = "nonlist" THEN <<"'permissions' must be an array">>
         ELSE IF e.perms_kind = "list"
              THEN Repeat("Invalid permission (must be string)", e.perms_nonstr)
         ELSE <<>>)
        \o If(e.mv = 3 /\ e.hp_kind = "nonlist", "'host_permissions' must be an array"))

\* as validate_icons, with missing icons reported as an error
validate_icons_strict(st, e) ==
    IF e.icons_kind = "absent" THEN AddErrors(st, <<"No icons specified in manifest.json">>)
    ELSE IF e.icons_kind # "dict" THEN AddErrors(st, <<"'icons' must be an object with size keys">>)
    ELSE AddWarnings(st, If(Len(e.icons) = 0, "'icons' object is empty"))

validate_icons(st, e) ==
    IF e.icons_kind = "absent" THEN AddWarnings(st, <<"No icons specified in manifest.json">>)
    ELSE IF e.icons_kind # "dict" THEN AddErrors(st, <<"'icons' must be an object with size keys">>)
    ELSE AddWarnings(st, If(Len(e.icons) = 0, "'icons' object is empty"))

validate_firefox_requirements(st, e) ==
    AddWarnings(st,
        If(e.mv = 3, "Firefox has limited Manifest v3 support - test thoroughly")
        \o If(~e.bss /\ e.mv = 2,
              "Missing 'browser_specific_settings' for Firefox (optional but recommended)"))

validate_chrome_requirements(st, e) ==
    AddWarnings(st,
        If(e.mv = 2, "Manifest v2 is deprecated - migrate to Manifest v3")
        \o If(e.mv = 3 /\ e.bg_kind = "dict" /\ e.bg_sw = NoPath /\ ~e.bg_has_scripts,
              "Empty 'background' object - consider adding service_worker or scripts"))

validate_edge_requirements(st, e) ==
    AddWarnings(st,
        If(e.mv = 2, "Manifest v2 is deprecated - migrate to Manifest v3")
        \o If(e.bss, "'browser_specific_settings' is typically for Firefox, not Edge"))

validate_opera_requirements(st, e) ==
    AddWarnings(st, If(e.mv = 2, "Manifest v2 is deprecated - migrate to Manifest v3"))

validate_browser_specifics(st, e, browser_type) ==
    IF browser_type = FIREFOX THEN validate_firefox_requirements(st, e)
    ELSE IF browser_type = CHROME THEN validate_chrome_requirements(st, e)
    ELSE IF browser_type = EDGE THEN validate_edge_requirements(st, e)
    ELSE IF browser_type = OPERA THEN validate_opera_requirements(st, e)
    ELSE st

validate_manifest_v3_requirements(st, e) ==
    AddErrors(
        AddWarnings(st, If(~e.action /\ ~e.page_action /\ ~e.browser_action,
                           "No 'action' field specified (recommended for Manifest v3)")),
        If(e.bg_kind = "dict" /\ e.bg_has_scripts,
           "'background.scripts' not supported in Manifest v3, use 'background.service_worker'"))

validate_manifest_v2_requirements(st, e) ==
    AddWarnings(st, If(e.csp_kind = "absent",
                       "No 'content_security_policy' specified (recommended for security)"))

\* manifest.get("permissions", []): its len()
PermissionsLen(e) == IF e.perms_kind = "absent" THEN 0 ELSE e.perms_n

\* manifest.get("host_permissions", []) as the sequence the code iterates; a
\* host_permissions that is not an array is the string "https://example.com/*",
\* which neither contains "<all_urls>" nor has an element equal to "*://*/*"
HostPermissions(e) == IF e.hp_kind = "list" THEN e.hp ELSE <<>>

BroadHostMessage(h) ==
    IF h = "<all_urls>" THEN "'<all_urls>' in host_permissions is too broad - specify specific hosts"
    ELSE "'*://*/*' host permission is too broad - specify specific hosts"

RECURSIVE WildcardHostErrors(_)
WildcardHostErrors(hp) ==
    IF hp = <<>> THEN <<>>
    ELSE If(Head(hp) = "*://*/*", BroadHostMessage("*://*/*"))
         \o WildcardHostErrors(Tail(hp))

BroadHostErrors(e) ==
    If("<all_urls>" \in Range(HostPermissions(e)), BroadHostMessage("<all_urls>"))
    \o WildcardHostErrors(HostPermissions(e))

\* as validate_performance, with the broad host permissions reported as warnings
validate_performance_advisory(st, e) ==
    AddWarnings(st,
        If(e.size_mb > 50, "Extension size is large - may slow down browser loading")
        \o If(PermissionsLen(e) > 10, "Extension has many permissions - consider reducing for security")
        \o BroadHostErrors(e))

validate_performance(st, e) ==
    AddErrors(
        AddWarnings(st,
            If(e.size_mb > 50, "Extension size is large - may slow down browser loading")
            \o If(PermissionsLen(e) > 10, "Extension has many permissions - consider reducing for security")),
        BroadHostErrors(e))

validate_security(st, e) ==
    AddWarnings(
        AddErrors(st,
            If("unsafe-eval" \in e.csp, "'unsafe-eval' found in CSP - this is a security risk")
            \o If(e.ec_kind = "dict" /\ ({"*://*/*", "<all_urls>"} \cap e.ec_matches) # {},
                  "'externally_connectable' with <all_urls> is a security risk")),
        If("unsafe-inline" \in e.csp, "'unsafe-inline' in CSP can be a security risk - consider using nonces"))

VersionRequirements(st, e) ==
    IF e.mv = 3 THEN validate_manifest_v3_requirements(st, e)
    ELSE IF e.mv = 2 THEN validate_manifest_v2_requirements(st, e)
    ELSE st

\* as RunChecks, with the security check run first
RunChecks_security_first(st, e, browser_type) ==
     validate_performance(
      VersionRequirements(
       validate_browser_specifics(
        validate_icons(
         validate_permissions(
          validate_required_files(
           validate_manifest_structure(
            detect_browser_compatibility(
             validate_security(st, e), e), e), e), e), e), e, browser_type), e), e)

\* the checks validate_extension runs on a manifest that parsed to a dict
RunChecks(st, e, browser_type) ==
    validate_security(
     validate_performance(
      VersionRequirements(
       validate_browser_specifics(
        validate_icons(
         validate_permissions(
          validate_required_files(
           validate_manifest_structure(
            detect_browser_compatibility(st, e), e), e), e), e), e, browser_type), e), e), e)

Returned(st, is_valid) == [outcome |-> "returned", is_valid |-> is_valid,
                           errors |-> st.errors, warnings |-> st.warnings, detected |-> st.detected]
Raised(st, msg) == [outcome |-> "raised", is_valid |-> FALSE,
                    errors |-> st.errors, warnings |-> st.warnings, detected |-> st.detected,
                    message |-> msg]

\* validate_extension on a validator whose detected_browsers is `detected`;
\* browser_type is the validator's browser_type after `if browser_type:`
validate_extension(detected, e, browser_type) ==
    LET st0 == [errors |-> <<>>, warnings |-> <<>>, detected |-> detected] IN
    IF ~e.is_dir
    THEN Returned(AddErrors(st0, <<"Extension path is not a directory">>), FALSE)
    ELSE IF ~e.has_manifest
    THEN Returned(AddErrors(st0, <<"manifest.json not found in extension root">>), FALSE)
    ELSE IF e.json = "invalid"
    THEN Returned(AddErrors(st0, <<"Invalid JSON in manifest.json">>), FALSE)
    ELSE IF e.json = "null"
    THEN Returned(st0, FALSE)
    ELSE IF e.json = "nondict"
    THEN Raised(st0, "object has no attribute 'get'")
    ELSE LET st == RunChecks(st0, e, browser_type)
         IN  Returned(st, Len(st.errors) = 0)

(***************************************************************************)
(* The extensions the model validates: MinimalExtension changed in at most *)
(* MaxDeviations groups of fields.  A patch gives new values to the fields *)
(* of one group.                                                           *)
(***************************************************************************)
ScriptEntries == [js : SeqsUpTo(Paths, MaxRefs), css : SeqsUpTo(Paths, MaxRefs)]

PatchGroups == <<
    [is_dir : BOOLEAN],
    [has_manifest : BOOLEAN],
    [json : {"dict", "null", "nondict", "invalid"}],
    [mv : 0..3],
    [name : {"absent", "str", "nonstr"}],
    [version : {"absent", "str", "nonstr"}],
    [description : {"absent", "str", "nonstr"}],
    [icons_kind : {"absent", "nondict"}, icons : {<<>>}]
        \cup [icons_kind : {"dict"}, icons : SeqsUpTo(Paths, MaxRefs)],
    [cs_kind : {"absent", "nonlist"}, cs : {<<>>}]
        \cup [cs_kind : {"list"}, cs : SeqsUpTo(ScriptEntries, MaxScripts)],
    [bg_kind : {"absent", "nondict"}, bg_sw : {NoPath}, bg_has_scripts : {FALSE},
     bg_scripts : {<<>>}, bg_page : {NoPath}]
        \cup [bg_kind : {"dict"}, bg_sw : {NoPath}, bg_has_scripts : {FALSE},
              bg_scripts : {<<>>}, bg_page : Paths \cup {NoPath}]
        \cup [bg_kind : {"dict"}, bg_sw : Paths, bg_has_scripts : {FALSE},
              bg_scripts : {<<>>}, bg_page : {NoPath}]
        \cup [bg_kind : {"dict"}, bg_sw : Paths \cup {NoPath}, bg_has_scripts : {TRUE},
              bg_scripts : SeqsUpTo(Paths, MaxRefs), bg_page : {NoPath}],
    [perms_kind : {"absent"}, perms_n : {0}, perms_nonstr : {0}]
        \cup [perms_kind : {"nonlist"}, perms_n : {4}, perms_nonstr : {0}]
        \cup [perms_kind : {"list"}, perms_n : PermCounts, perms_nonstr : 0..1],
    [hp_kind : {"absent", "nonlist"}, hp : {<<>>}]
        \cup [hp_kind : {"list"}, hp : SeqsUpTo(HostPatterns, MaxHosts)],
    [csp_kind : {"absent"}, csp : {{}}]
        \cup [csp_kind : {"present"}, csp : SUBSET CspTokens],
    [ec_kind : {"absent", "nomatches"}, ec_matches : {{}}]
        \cup [ec_kind : {"dict"}, ec_matches : {{h} : h \in HostPatterns}],
    [bss : BOOLEAN],
    [applications : BOOLEAN],
    [action : BOOLEAN],
    [page_action : BOOLEAN],
    [browser_action : BOOLEAN],
    [mentions_safari : BOOLEAN],
    [size_mb : {1, 60}]
>>

GroupFields(k) == DOMAIN (CHOOSE p \in PatchGroups[k] : TRUE)

GroupDeviates(e, k) == \E f \in GroupFields(k) : e[f] # MinimalExtension[f]

DeviationCount(e) == Cardinality({k \in 1..Len(PatchGroups) : GroupDeviates(e, k)})

\* the extensions a reused validator is pointed at
SampleExtensions ==
    { MinimalExtension,
      [MinimalExtension EXCEPT !.mv = 2],
      [MinimalExtension EXCEPT !.has_manifest = FALSE],
      [MinimalExtension EXCEPT !.hp_kind = "list", !.hp = <<"<all_urls>">>] }

\* argument browser_type of validate_extension; NoBrowser is None
NoBrowser == ""
BrowserArgs == ALL \cup {NoBrowser}

(***************************************************************************)
(* ExtensionValidator as a state machine                                   *)
(***************************************************************************)
NoCall == [outcome |-> "none", is_valid |-> FALSE]

PipelineIdle ==
    /\ browsers = <<>>
    /\ pc = "unused"
    /\ idx = 0
    /\ stages = <<>>
    /\ stage4_results = <<>>
    /\ stage5_results = <<>>
    /\ summary = <<>>
    /\ calls = <<>>

\* nothing but the validator and the pipeline is in use
NoRecord == [absent |-> TRUE]
NoWeights == [absent |-> TRUE]

ScoringIdle ==
    /\ weights = NoWeights
    /\ data = NoRecord
    /\ score_log = <<>>
    /\ grade_call = NoCall
    /\ scan_call = NoCall

AnalyzersIdle == size_call = NoCall /\ dep_call = NoCall

ToolsIdle == d_log = <<>> /\ ScoringIdle /\ AnalyzersIdle

\* ExtensionValidator.__init__ with the default browser_type
ValidatorInit ==
    /\ ext = MinimalExtension
    /\ v_errors = <<>>
    /\ v_warnings = <<>>
    /\ v_browser_type = CHROME
    /\ v_detected = {}
    /\ v_ret = NoCall
    /\ v_calls = 0
    /\ PipelineIdle
    /\ ToolsIdle

\* the extension is written before it is validated: one group of fields is
\* changed at a time, in the order of PatchGroups, so that every extension with
\* at most MaxDeviations changed groups is produced once
EditExtension ==
    /\ v_calls = 0
    /\ DeviationCount(ext) < MaxDeviations
    /\ \E k \in 1..Len(PatchGroups) :
          /\ \A j \in k..Len(PatchGroups) : ~GroupDeviates(ext, j)
          /\ \E p \in PatchGroups[k] :
                /\ ext' = p @@ ext
                /\ ext' # ext
    /\ UNCHANGED <<validatorVars, pipelineVars, toolVars>>

\* validate_extension(extension_path, browser_type): the first call is on ext;
\* a validator that is reused (validate_all_extensions, bulk runs) goes through
\* SampleExtensions
Validate ==
    /\ v_calls < MaxCalls
    /\ v_calls = 0 \/ ext \in SampleExtensions
    /\ \E e \in (IF v_calls = 0 THEN {ext} ELSE SampleExtensions) : \E arg \in BrowserArgs :
         LET bt == IF arg # NoBrowser THEN arg ELSE v_browser_type
             r == validate_extension(v_detected, e, bt)
         IN  /\ ext' = e
             /\ v_browser_type' = bt
             /\ v_errors' = r.errors
             /\ v_warnings' = r.warnings
             /\ v_detected' = r.detected
             /\ v_ret' = [outcome |-> r.outcome, is_valid |-> r.is_valid]
    /\ v_calls' = v_calls + 1
    /\ UNCHANGED <<pipelineVars, toolVars>>

ValidatorNext == EditExtension \/ Validate

ValidatorSpec == ValidatorInit /\ [][ValidatorNext]_vars

(***************************************************************************)
(* Claims about ExtensionValidator                                         *)
(***************************************************************************)
\* the latest validate_extension call returned
HasReturned == v_ret.outcome = "returned"

\* ... and it got as far as the checks on a parsed manifest
ChecksRan == HasReturned /\ ext.is_dir /\ ext.has_manifest /\ ext.json = "dict"

Count(msgs, s) == Cardinality({k \in 1..Len(s) : s[k] \in msgs})

\* C7: validate_extension returns is_valid = true exactly when the returned
\* errors list is empty, on every return path.
C7_ValidIffNoErrors == HasReturned => (v_ret.is_valid <=> v_errors = <<>>)

\* C8: for a parsed manifest whose host_permissions contains <all_urls> (or
\* *://*/*), validate_extension returns is_valid = false and the broad host
\* permission is among the errors and not among the warnings, whatever the
\* other fields and the target browser.
C8_BroadHostIsError ==
    ChecksRan /\ ext.hp_kind = "list" =>
        \A h \in {"<all_urls>", "*://*/*"} :
            h \in Range(ext.hp) =>
                /\ ~v_ret.is_valid
                /\ BroadHostMessage(h) \in Range(v_errors)
                /\ BroadHostMessage(h) \notin Range(v_warnings)

C8_Witness ==
    /\ ChecksRan
    /\ "<all_urls>" \in Range(ext.hp)
    /\ ext.mv = 2
    /\ v_browser_type = FIREFOX
    /\ ~v_ret.is_valid

\* every file the manifest references exists
AllReferencesExist(e) ==
    /\ Range(e.icons) \subseteq ExistingFiles
    /\ \A k \in 1..Len(e.cs) : Range(e.cs[k].js) \cup Range(e.cs[k].css) \subseteq ExistingFiles
    /\ e.bg_sw \in ExistingFiles \cup {NoPath}
    /\ e.bg_page \in ExistingFiles \cup {NoPath}
    /\ Range(e.bg_scripts) \subseteq ExistingFiles

\* a manifest that holds manifest_version 2 or 3, a string name and version,
\* possibly a string description, and file references (icons, content_scripts,
\* background) that all exist; no permissions, host_permissions,
\* content_security_policy or externally_connectable
MinimalManifest(e) ==
    /\ e.is_dir /\ e.has_manifest /\ e.json = "dict"
    /\ e.mv \in {2, 3} /\ e.name = "str" /\ e.version = "str"
    /\ e.description \in {"absent", "str"}
    /\ e.icons_kind \in {"absent", "dict"}
    /\ e.cs_kind \in {"absent", "list"}
    /\ e.bg_kind \in {"absent", "dict"}
    /\ AllReferencesExist(e)
    /\ e.perms_kind = "absent" /\ e.hp_kind = "absent"
    /\ e.csp_kind = "absent" /\ e.ec_kind = "absent"

\* C9 as stated: every valid minimal manifest (manifest_version 2 or 3, string
\* name and version, every referenced file existing) is reported valid with no
\* errors, for every target browser.
C9_MinimalIsValid ==
    HasReturned /\ MinimalManifest(ext) => v_ret.is_valid /\ v_errors = <<>>

\* C9 amended: the same, for the minimal manifests that do not declare
\* background.scripts under manifest_version 3; a missing description and
\* missing icons are reported as warnings.
C9_MinimalIsValidAmended ==
    HasReturned /\ MinimalManifest(ext) /\ ~(ext.mv = 3 /\ ext.bg_has_scripts) =>
        /\ v_ret.is_valid
        /\ v_errors = <<>>
        /\ ext.description = "absent" =>
              "Missing optional field 'description' in manifest.json" \in Range(v_warnings)
        /\ ext.icons_kind = "absent" =>
              "No icons specified in manifest.json" \in Range(v_warnings)

C9_Witness ==
    /\ HasReturned /\ MinimalManifest(ext)
    /\ ext.mv = 2 /\ ext.bg_has_scripts /\ ext.bg_scripts # <<>>
    /\ ext.icons_kind = "absent"
    /\ v_browser_type = FIREFOX
    /\ v_ret.is_valid

NameErrors == {"Missing required field 'name' in manifest.json",
               "Field 'name' has wrong type. Expected str"}
VersionErrors == {"Missing required field 'version' in manifest.json",
                  "Field 'version' has wrong type. Expected str"}
ManifestVersionErrors == {"Missing 'manifest_version' in manifest.json",
                          "Invalid manifest_version (must be 2 or 3)"}
DescriptionErrors == {"Field 'description' has wrong type. Expected string"}

\* the extension with a string version put in
WithVersion(e) == [e EXCEPT !.version = "str"]

\* C10: the structure check yields exactly one error for each of name and
\* version that is missing or not a string, one error for a manifest_version
\* other than 2 or 3, and only a warning for a missing description; an
\* otherwise valid manifest without version yields exactly one error, the
\* missing-field error, and is_valid = false.
C10_StructureErrors ==
    ChecksRan =>
        /\ Count(NameErrors, v_errors) = (IF ext.name # "str" THEN 1 ELSE 0)
        /\ Count(VersionErrors, v_errors) = (IF ext.version # "str" THEN 1 ELSE 0)
        /\ Count(ManifestVersionErrors, v_errors) = (IF ext.mv \notin {2, 3} THEN 1 ELSE 0)
        /\ ext.description = "absent" =>
              /\ Count(DescriptionErrors, v_errors) = 0
              /\ Count({"Missing optional field 'description' in manifest.json"}, v_warnings) = 1
        /\ ( /\ ext.version = "absent"
             /\ validate_extension(v_detected, WithVersion(ext), v_browser_type).errors = <<>> )
           => /\ v_errors = <<"Missing required field 'version' in manifest.json">>
              /\ ~v_ret.is_valid

C10_Witness ==
    /\ ChecksRan
    /\ ext.version = "absent"
    /\ ext.mv = 2
    /\ validate_extension(v_detected, WithVersion(ext), v_browser_type).errors = <<>>
    /\ Len(v_errors) = 1
    /\ ~v_ret.is_valid


(***************************************************************************)
(* detect_browser_compatibility called directly on a validator             *)
(***************************************************************************)
\* the parsed manifests handed to detect_browser_compatibility
DetectManifests ==
    { [MinimalExtension EXCEPT !.mv = m, !.bss = b, !.applications = a, !.mentions_safari = s] :
        m \in 0..3, b \in BOOLEAN, a \in BOOLEAN, s \in BOOLEAN }

\* a second manifest the same validator is asked about
OtherManifest == [MinimalExtension EXCEPT !.bss = TRUE]

DetectInit ==
    /\ ext \in DetectManifests
    /\ v_errors = <<>>
    /\ v_warnings = <<>>
    /\ v_browser_type = CHROME
    /\ v_detected = {}
    /\ v_ret = NoCall
    /\ v_calls = 0
    /\ PipelineIdle
    /\ ToolsIdle

\* validator.detect_browser_compatibility(manifest); the returned list holds the
\* elements of the set in no particular order and is logged as the set
Detect ==
    /\ Len(d_log) < MaxDetects
    /\ \E e \in {ext, OtherManifest} :
         LET st == detect_browser_compatibility(
                       [errors |-> v_errors, warnings |-> v_warnings, detected |-> v_detected], e)
         IN  /\ v_errors' = st.errors
             /\ v_warnings' = st.warnings
             /\ v_detected' = st.detected
             /\ d_log' = Append(d_log,
                    [manifest |-> e, manifest_after |-> e, ret |-> st.detected,
                     errors_before |-> v_errors, errors_after |-> st.errors,
                     warnings_before |-> v_warnings, warnings_after |-> st.warnings])
    /\ UNCHANGED <<ext, v_browser_type, v_ret, v_calls, pipelineVars, scoringVars, analyzerVars>>

DetectNext == Detect

DetectSpec == DetectInit /\ [][DetectNext]_vars

(***************************************************************************)
(* Claims about detect_browser_compatibility and the file checks           *)
(***************************************************************************)
LimitedSupport == "Firefox has limited Manifest v3 support"

\* the warnings a logged call appended
Emitted(c) == SubSeq(c.warnings_after, Len(c.warnings_before) + 1, Len(c.warnings_after))

MissingMessages(p) ==
    { "Icon file not found: " \o p, "Content script not found: " \o p,
      "Content stylesheet not found: " \o p, "Service worker not found: " \o p,
      "Background script not found: " \o p }

\* the paths the manifest references through icons, content_scripts and background
ReferencedPaths(e) ==
    (IF e.icons_kind = "dict" THEN Range(e.icons) ELSE {})
    \cup (IF e.cs_kind = "list"
          THEN UNION {Range(e.cs[k].js) \cup Range(e.cs[k].css) : k \in 1..Len(e.cs)}
          ELSE {})
    \cup (IF e.bg_kind = "dict"
          THEN ({e.bg_sw, e.bg_page} \ {NoPath}) \cup Range(e.bg_scripts)
          ELSE {})

\* C12: every path referenced through icons, content_scripts (js, css) or
\* background (service_worker, scripts, page) that does not exist produces an
\* error, never a warning, and is_valid = false, whichever combination of
\* background keys is present.
C12_MissingReferenceIsError ==
    ChecksRan =>
        \A p \in ReferencedPaths(ext) :
            ~Exists(p) =>
                /\ MissingMessages(p) \cap Range(v_errors) # {}
                /\ MissingMessages(p) \cap Range(v_warnings) = {}
                /\ ~v_ret.is_valid

\* C13 as stated: detect_browser_compatibility leaves the manifest unchanged,
\* adds nothing to the validator's errors or warnings, and any two calls with
\* the same manifest return the same set of browsers.
C13_DetectIsPure ==
    \A k \in 1..Len(d_log) :
        LET c == d_log[k]
        IN  /\ c.manifest_after = c.manifest
            /\ c.errors_after = c.errors_before
            /\ c.warnings_after = c.warnings_before
            /\ \A j \in 1..Len(d_log) : d_log[j].manifest = c.manifest => d_log[j].ret = c.ret

(***************************************************************************)
(* ExtensionBrowserTester (src/exttester/browser_tester.py), as far as the *)
(* pipeline uses it.  A test returns a BrowserTestResult or raises.        *)
(***************************************************************************)
TestResult(success, message, console_warnings) ==
    [raised |-> FALSE, success |-> success, message |-> message,
     console_warnings |-> console_warnings]

TestRaises(message) ==
    [raised |-> TRUE, success |-> FALSE, message |-> message, console_warnings |-> <<>>]

\* open(manifest_path) and json.load succeed
ManifestReadable(e) == e.is_dir /\ e.has_manifest /\ e.json # "invalid"

\* fields an extension may carry beyond the ones the validator reads
Popup(e) == IF "popup" \in DOMAIN e THEN e.popup ELSE "none"
DangerousPermissions(e) == IF "perms_dangerous" \in DOMAIN e THEN e.perms_dangerous ELSE 0
Matches(script) == IF "matches" \in DOMAIN script THEN script.matches ELSE <<>>

test_extension_load(e) ==
    IF ~(e.is_dir /\ e.has_manifest) THEN TestResult(FALSE, "manifest.json not found", <<>>)
    ELSE IF e.json = "invalid" THEN TestResult(FALSE, "Invalid manifest.json", <<>>)
    ELSE IF e.json = "null" THEN TestRaises("argument of type 'NoneType' is not iterable")
    ELSE IF e.json = "nondict" \/ e.mv = 0 \/ e.name = "absent" \/ e.version = "absent"
         THEN TestResult(FALSE, "Missing required manifest fields", <<>>)
    ELSE TestResult(TRUE, "Extension manifest valid", <<>>)

test_popup(e) ==
    IF ~ManifestReadable(e) THEN TestResult(FALSE, "Cannot read manifest", <<>>)
    ELSE IF e.json # "dict" THEN TestRaises("object has no attribute 'get'")
    ELSE IF ~(IF e.mv = 3 THEN e.action ELSE e.browser_action)
         THEN TestResult(FALSE, "No popup defined", <<>>)
    ELSE IF Popup(e) = "none" THEN TestResult(FALSE, "No default_popup specified", <<>>)
    ELSE IF Popup(e) = "missing" THEN TestResult(FALSE, "Popup file not found", <<>>)
    ELSE IF Popup(e) = "inline"
         THEN TestResult(FALSE, "Popup contains inline script (will be rejected from store)",
                         <<"Move inline scripts to external .js file">>)
    ELSE TestResult(TRUE, "Popup test passed", <<>>)

RECURSIVE BroadMatchIssues(_)
BroadMatchIssues(matches) ==
    IF matches = <<>> THEN <<>>
    ELSE If(Head(matches) \in {"<all_urls>", "*://*/*"}, "Overly broad match pattern: " \o Head(matches))
         \o BroadMatchIssues(Tail(matches))

RECURSIVE ContentScriptIssues(_)
ContentScriptIssues(scripts) ==
    IF scripts = <<>> THEN <<>>
    ELSE NotFound("Content script not found: ", Head(scripts).js)
         \o If(Matches(Head(scripts)) = <<>>, "Content script: no match patterns")
         \o BroadMatchIssues(Matches(Head(scripts)))
         \o ContentScriptIssues(Tail(scripts))

test_content_scripts(e) ==
    IF ~ManifestReadable(e) THEN TestResult(FALSE, "Cannot read manifest", <<>>)
    ELSE IF e.json # "dict" THEN TestRaises("object has no attribute 'get'")
    ELSE IF e.cs_kind = "nonlist" THEN TestRaises("'str' object has no attribute 'get'")
    ELSE IF e.cs = <<>> THEN TestResult(TRUE, "No content scripts (not required)", <<>>)
    ELSE IF ContentScriptIssues(e.cs) # <<>>
         THEN TestResult(FALSE, "Content script issues found", ContentScriptIssues(e.cs))
    ELSE TestResult(TRUE, "Content scripts valid", <<>>)

test_background_script(e) ==
    IF ~ManifestReadable(e) THEN TestResult(FALSE, "Cannot read manifest", <<>>)
    ELSE IF e.json # "dict" THEN TestRaises("object has no attribute 'get'")
    ELSE IF e.bg_kind = "nondict" THEN TestRaises("'str' object has no attribute 'get'")
    ELSE IF e.mv = 3
         THEN IF e.bg_sw = NoPath
              THEN TestResult(FALSE, "MV3: Missing service_worker in background", <<>>)
              ELSE IF ~Exists(e.bg_sw)
              THEN TestResult(FALSE, "Service worker file not found: " \o e.bg_sw, <<>>)
              ELSE TestResult(TRUE, "Background script valid", <<>>)
    ELSE IF e.bg_page = NoPath /\ e.bg_scripts = <<>>
         THEN TestResult(FALSE, "No background page or scripts", <<>>)
    ELSE IF e.bg_page # NoPath /\ ~Exists(e.bg_page)
         THEN TestResult(FALSE, "Background page not found: " \o e.bg_page, <<>>)
    ELSE TestResult(TRUE, "Background script valid", <<>>)

PermissionWarnings(e) ==
    Repeat("dangerous permission", DangerousPermissions(e))
    \o BroadMatchIssues(HostPermissions(e))

test_permissions(e) ==
    IF ~ManifestReadable(e) THEN TestResult(FALSE, "Cannot read manifest", <<>>)
    ELSE IF e.json # "dict" THEN TestRaises("object has no attribute 'get'")
    ELSE IF PermissionWarnings(e) # <<>>
         THEN TestResult(FALSE, "Permission warnings found", PermissionWarnings(e))
    ELSE TestResult(TRUE, "Permissions valid", <<>>)

check_browser_available(browser, installed) ==
    IF ~installed THEN TestResult(FALSE, browser \o " is not installed or not found in PATH", <<>>)
    ELSE TestResult(TRUE, browser \o " is available", <<>>)

Passed(results) == Cardinality({k \in 1..Len(results) : results[k].success})

\* run_all_tests: the returned dict (has_summary tells whether it has the key
\* 'summary'), or the exception one of the tests raised
run_all_tests(e, browser, installed) ==
    LET avail == check_browser_available(browser, installed)
        results == <<avail, test_extension_load(e), test_popup(e), test_content_scripts(e),
                     test_background_script(e), test_permissions(e)>>
        raising == {k \in 1..Len(results) : results[k].raised}
    IN  IF ~avail.success
        THEN [raised |-> FALSE, browser |-> browser, success |-> FALSE, results |-> <<avail>>,
              message |-> browser \o " not available", has_summary |-> FALSE]
        ELSE IF raising # {}
        THEN [raised |-> TRUE,
              message |-> results[CHOOSE k \in raising : \A j \in raising : k <= j].message]
        ELSE [raised |-> FALSE, browser |-> browser, success |-> Passed(results) = Len(results),
              results |-> results, has_summary |-> TRUE,
              summary |-> [passed |-> Passed(results), total |-> Len(results),
                           failed |-> Len(results) - Passed(results)]]

(***************************************************************************)
(* TestingPipeline (src/pipeline.py): the stage functions.  A stage        *)
(* function returns a dict or raises; what it reads besides the extension  *)
(* (the files the scanners see, whether a browser is installed, an I/O     *)
(* error) is its env.                                                      *)
(***************************************************************************)
StageReturn(success, errors, warnings) ==
    [raised |-> FALSE, success |-> success, errors |-> errors, warnings |-> warnings]

StageRaises(message) ==
    [raised |-> TRUE, success |-> FALSE, errors |-> <<>>, warnings |-> <<>>, message |-> message]

IOError == "[Errno 13] Permission denied"

Stage1Envs == [icon_files : BOOLEAN, io_error : BOOLEAN]

check_static_files(e, env) ==
    IF ~(e.is_dir /\ e.has_manifest) THEN StageReturn(FALSE, <<"manifest.json missing">>, <<>>)
    ELSE IF env.io_error THEN StageRaises(IOError)
    ELSE StageReturn(TRUE, <<>>,
                     If(~env.icon_files, "No icon files found (may be required for stores)"))

\* what StoreComplianceChecker.check_all reports, over the three stores
StoreReports ==
    { [errors |-> <<>>, warnings |-> <<>>, privacy_warnings |-> <<>>],
      [errors |-> <<>>, warnings |-> <<"Missing icons for chrome">>,
       privacy_warnings |-> <<"No privacy policy found">>],
      [errors |-> <<"Remote code load detected", "Remote code load detected">>,
       warnings |-> <<"Missing icons for chrome">>, privacy_warnings |-> <<>>] }

Stage2Envs == [store : StoreReports, io_error : BOOLEAN]

\* StoreComplianceChecker.check_all on e: without a manifest it can load, each
\* of the three stores reports one error; otherwise what its scanners report
check_all(e, store) ==
    IF ~ManifestReadable(e)
    THEN [errors |-> Repeat("manifest.json missing or invalid", 3), warnings |-> <<>>,
          privacy_warnings |-> store.privacy_warnings]
    ELSE store

\* as validate_manifest, with success taken from the errors of the validator
\* alone
validate_manifest_validator_only(e, env) ==
    LET r == validate_extension({}, e, CHROME)
        store_report == check_all(e, env.store)
        errors == r.errors \o store_report.errors
        warnings == r.warnings \o store_report.warnings \o store_report.privacy_warnings
    IN  IF r.outcome = "raised" THEN StageReturn(FALSE, <<r.message>>, <<>>)
        ELSE IF env.io_error THEN StageReturn(FALSE, <<IOError>>, <<>>)
        ELSE IF ManifestReadable(e) /\ e.json = "null"
        THEN StageReturn(FALSE, <<"'NoneType' object has no attribute 'get'">>, <<>>)
        ELSE StageReturn(r.is_valid, errors, warnings)

\* _validate_manifest; the privacy scanner of check_all raises on a manifest
\* that holds null, which the except clause turns into the only error
validate_manifest(e, env) ==
    LET r == validate_extension({}, e, CHROME)
        store_report == check_all(e, env.store)
        errors == r.errors \o store_report.errors
        warnings == r.warnings \o store_report.warnings \o store_report.privacy_warnings
    IN  IF r.outcome = "raised" THEN StageReturn(FALSE, <<r.message>>, <<>>)
        ELSE IF env.io_error THEN StageReturn(FALSE, <<IOError>>, <<>>)
        ELSE IF ManifestReadable(e) /\ e.json = "null"
        THEN StageReturn(FALSE, <<"'NoneType' object has no attribute 'get'">>, <<>>)
        ELSE StageReturn(r.is_valid /\ Len(errors) = 0, errors, warnings)

\* what the linter and the scanners of stage 3 report
LintReports ==
    { [lint_errors |-> <<>>, lint_warnings |-> <<>>, size_errors |-> <<>>,
       size_warnings |-> <<>>, scanner_warnings |-> <<>>],
      [lint_errors |-> <<>>, lint_warnings |-> <<"popup.js:1 innerHTML">>, size_errors |-> <<>>,
       size_warnings |-> <<"Extension size exceeds 25 MB threshold">>,
       scanner_warnings |-> <<"Insecure HTTP URL">>],
      [lint_errors |-> <<"popup.js:3 eval-detected">>, lint_warnings |-> <<>>,
       size_errors |-> <<"Extension size exceeds 50 MB threshold">>,
       size_warnings |-> <<>>, scanner_warnings |-> <<>>] }

Stage3Envs == [report : LintReports, io_error : BOOLEAN]

lint_code(env) ==
    LET errors == env.report.lint_errors \o env.report.size_errors
        warnings == env.report.lint_warnings \o env.report.size_warnings
                    \o env.report.scanner_warnings
    IN  IF env.io_error THEN StageRaises(IOError)
        ELSE StageReturn(Len(errors) = 0, errors, warnings)

browser_load_test(e, browser) ==
    LET result == test_extension_load(e)
    IN  IF result.raised THEN StageRaises(result.message)
        ELSE StageReturn(result.success,
                         IF result.success THEN <<>> ELSE <<result.message>>,
                         result.console_warnings)

RECURSIVE FailedMessages(_)
FailedMessages(results) ==
    IF results = <<>> THEN <<>>
    ELSE If(~Head(results).success, Head(results).message) \o FailedMessages(Tail(results))

RECURSIVE ConsoleWarnings(_)
ConsoleWarnings(results) ==
    IF results = <<>> THEN <<>>
    ELSE Head(results).console_warnings \o ConsoleWarnings(Tail(results))

runtime_behavior_test(e, browser, installed) ==
    LET test_results == run_all_tests(e, browser, installed)
    IN  IF test_results.raised THEN StageRaises(test_results.message)
        ELSE IF ~test_results.has_summary THEN StageRaises("'summary'")
        ELSE StageReturn(test_results.success, FailedMessages(test_results.results),
                         ConsoleWarnings(test_results.results))

\* the keys of a dict filled in the order of bs
RECURSIVE Keys(_)
Keys(bs) ==
    IF bs = <<>> THEN <<>>
    ELSE LET rest == Keys(SubSeq(bs, 1, Len(bs) - 1))
         IN  IF bs[Len(bs)] \in Range(rest) THEN rest ELSE Append(rest, bs[Len(bs)])

ApiIssues == { <<>>, <<"webRequest permission is deprecated", "Use: declarativeNetRequest">> }

Stage6Envs == [api_issues : ApiIssues, io_error : BOOLEAN]

\* as compatibility_analysis, with the issues reported as errors
compatibility_analysis_as_errors(bs, env) ==
    IF env.io_error THEN StageReturn(FALSE, <<IOError>>, <<>>)
    ELSE LET issues == Flatten([k \in 1..Len(Keys(bs)) |-> env.api_issues])
         IN  StageReturn(issues = <<>>, issues, <<>>)

\* _compatibility_analysis: the issues of every browser of the report are
\* warnings; an exception of the checker is the only error
compatibility_analysis(bs, env) ==
    IF env.io_error THEN StageReturn(FALSE, <<IOError>>, <<>>)
    ELSE StageReturn(TRUE, <<>>, Flatten([k \in 1..Len(Keys(bs)) |-> env.api_issues]))

(***************************************************************************)
(* TestingPipeline: _run_stage, _calculate_summary and run                 *)
(***************************************************************************)
\* as run_stage, without the try / except around test_func()
run_stage_uncaught(num, name, result) ==
    [propagated |-> result.raised,
     stage |-> [stage_num |-> num, name |-> name, success |-> result.success,
                errors |-> result.errors, warnings |-> result.warnings]]

\* _run_stage: the PipelineStage made of what test_func returned or raised;
\* propagated tells whether the exception leaves _run_stage
run_stage(num, name, result) ==
    [propagated |-> FALSE,
     stage |-> IF result.raised
               THEN [stage_num |-> num, name |-> name, success |-> FALSE,
                     errors |-> <<result.message>>, warnings |-> <<>>]
               ELSE [stage_num |-> num, name |-> name, success |-> result.success,
                     errors |-> result.errors, warnings |-> result.warnings]]

Get(d, key, default) == IF key \in DOMAIN d THEN d[key] ELSE default

\* the values of a per_browser dict, as a sequence
SubResults(stage) ==
    LET per_browser == Get(stage, "per_browser", <<>>)
        keys == CHOOSE ks \in [1..Cardinality(DOMAIN per_browser) -> DOMAIN per_browser] :
                    Range(ks) = DOMAIN per_browser
    IN  [k \in 1..Len(keys) |-> per_browser[keys[k]]]

StageErrors(stage) ==
    Len(Get(stage, "errors", <<>>))
    + SumSeq([k \in 1..Len(SubResults(stage)) |-> Len(Get(SubResults(stage)[k], "errors", <<>>))])

StageWarnings(stage) ==
    Len(Get(stage, "warnings", <<>>))
    + SumSeq([k \in 1..Len(SubResults(stage)) |-> Len(Get(SubResults(stage)[k], "warnings", <<>>))])

Summary(total_stages, passed_stages, total_errors, total_warnings) ==
    [total_stages |-> total_stages, passed_stages |-> passed_stages,
     failed_stages |-> total_stages - passed_stages,
     total_errors |-> total_errors, total_warnings |-> total_warnings,
     success |-> passed_stages = total_stages]

\* as calculate_summary, leaving out the per-browser results
calculate_summary_flat(stgs) ==
    Summary(Cardinality({k \in 1..Len(stgs) : "stage_num" \in DOMAIN stgs[k]}),
            Cardinality({k \in 1..Len(stgs) : Get(stgs[k], "success", FALSE)}),
            SumSeq([k \in 1..Len(stgs) |-> Len(Get(stgs[k], "errors", <<>>))]),
            SumSeq([k \in 1..Len(stgs) |-> Len(Get(stgs[k], "warnings", <<>>))]))

\* as calculate_summary, counting every dict that carries a stage_num
calculate_summary_nested(stgs) ==
    Summary(Cardinality({k \in 1..Len(stgs) : "stage_num" \in DOMAIN stgs[k]})
              + SumSeq([k \in 1..Len(stgs) |-> Len(SubResults(stgs[k]))]),
            Cardinality({k \in 1..Len(stgs) : Get(stgs[k], "success", FALSE)}),
            SumSeq([k \in 1..Len(stgs) |-> StageErrors(stgs[k])]),
            SumSeq([k \in 1..Len(stgs) |-> StageWarnings(stgs[k])]))

calculate_summary(stgs) ==
    Summary(Cardinality({k \in 1..Len(stgs) : "stage_num" \in DOMAIN stgs[k]}),
            Cardinality({k \in 1..Len(stgs) : Get(stgs[k], "success", FALSE)}),
            SumSeq([k \in 1..Len(stgs) |-> StageErrors(stgs[k])]),
            SumSeq([k \in 1..Len(stgs) |-> StageWarnings(stgs[k])]))

\* the statement of run() that follows the one at position p, where i browsers
\* of the loop at p are done and n are requested
NextPosition_merge_in_loop(p, i, n) ==
    CASE p = "idle" -> "stage1"
      [] p = "stage1" -> "stage2"
      [] p = "stage2" -> "stage3"
      [] p = "stage3" -> "stage4"
      [] p = "stage4" -> "stage4_merge"
      [] p = "stage4_merge" -> IF i < n THEN "stage4" ELSE "stage5"
      [] p = "stage5" -> IF i < n THEN "stage5" ELSE "stage5_merge"
      [] p = "stage5_merge" -> "stage6"
      [] p = "stage6" -> "summary"
      [] p = "summary" -> "done"

NextPosition(p, i, n) ==
    CASE p = "idle" -> "stage1"
      [] p = "stage1" -> "stage2"
      [] p = "stage2" -> "stage3"
      [] p = "stage3" -> "stage4"
      [] p = "stage4" -> IF i < n THEN "stage4" ELSE "stage4_merge"
      [] p = "stage4_merge" -> "stage5"
      [] p = "stage5" -> IF i < n THEN "stage5" ELSE "stage5_merge"
      [] p = "stage5_merge" -> "stage6"
      [] p = "stage6" -> "summary"
      [] p = "summary" -> "done"

\* as BoundBrowser, for a lambda that reads the loop variable when it is called
BoundBrowser_late(bs, i) == bs[Len(bs)]

\* lambda b=browser: the browser the i-th sub-stage function runs against
BoundBrowser(bs, i) == bs[i]

BrowserNames == {"chrome", "firefox"}
DefaultBrowsers == <<"chrome", "firefox", "edge">>

\* an extension that every stage accepts
FullExtension ==
    [popup |-> "ok", perms_dangerous |-> 0]
    @@ [MinimalExtension EXCEPT !.description = "str", !.action = TRUE,
            !.bg_kind = "dict", !.bg_sw = "present.js",
            !.icons_kind = "dict", !.icons = <<"present.js">>,
            !.perms_kind = "list", !.perms_n = 1]

\* the extensions the pipeline is run on
PipelineExtensions ==
    { FullExtension,
      [popup |-> "none", perms_dangerous |-> 0] @@ MinimalExtension,
      [FullExtension EXCEPT !.has_manifest = FALSE],
      [FullExtension EXCEPT !.json = "null"],
      [FullExtension EXCEPT !.json = "nondict"],
      [FullExtension EXCEPT !.hp_kind = "list", !.hp = <<"<all_urls>">>, !.perms_dangerous = 1,
                            !.popup = "inline"] }

\* TestingPipeline.__init__
PipelineInit ==
    /\ ext \in PipelineExtensions
    /\ \E requested \in SeqsUpTo(BrowserNames, MaxBrowsers) :
          browsers = IF requested = <<>> THEN DefaultBrowsers ELSE requested
    /\ pc = "idle"
    /\ idx = 0
    /\ stages = <<>>
    /\ stage4_results = <<>>
    /\ stage5_results = <<>>
    /\ summary = <<>>
    /\ calls = <<>>
    /\ v_errors = <<>>
    /\ v_warnings = <<>>
    /\ v_browser_type = CHROME
    /\ v_detected = {}
    /\ v_ret = NoCall
    /\ v_calls = 0
    /\ ToolsIdle

\* run(): results = {..., 'stages': [], 'summary': {}}
Start ==
    /\ pc = "idle"
    /\ pc' = NextPosition(pc, 0, Len(browsers))
    /\ stages' = <<>>
    /\ summary' = <<>>
    /\ UNCHANGED <<ext, validatorVars, toolVars, browsers, idx, stage4_results, stage5_results, calls>>

\* stage = self._run_stage(num, name, ..., test_func); results['stages'].append(asdict(stage))
FlatStage(num, name, result) ==
    LET r == run_stage(num, name, result)
    IN  /\ calls' = Append(calls, [stage_num |-> num, key |-> "", browser |-> "", result |-> result])
        /\ IF r.propagated
           THEN pc' = "aborted" /\ UNCHANGED stages
           ELSE /\ stages' = Append(stages, r.stage)
                /\ pc' = NextPosition(pc, idx, Len(browsers))
        /\ UNCHANGED <<ext, validatorVars, toolVars, browsers, idx, stage4_results, stage5_results, summary>>

Stage1 ==
    /\ pc = "stage1"
    /\ \E env \in Stage1Envs : FlatStage(1, "Static File Checks", check_static_files(ext, env))

Stage2 ==
    /\ pc = "stage2"
    /\ \E env \in Stage2Envs : FlatStage(2, "Manifest Validation", validate_manifest(ext, env))

Stage3 ==
    /\ pc = "stage3"
    /\ \E env \in Stage3Envs : FlatStage(3, "Lint & Syntax Check", lint_code(env))

\* one iteration of `for browser in self.browsers` of stage 4
Stage4Browser ==
    /\ pc = "stage4"
    /\ idx < Len(browsers)
    /\ LET browser == browsers[idx + 1]
           b == BoundBrowser(browsers, idx + 1)
           result == browser_load_test(ext, b)
           r == run_stage(4, "Browser Load (" \o browser \o ")", result)
       IN  /\ calls' = Append(calls, [stage_num |-> 4, key |-> browser, browser |-> b,
                                    result |-> result])
           /\ IF r.propagated
              THEN pc' = "aborted" /\ UNCHANGED <<stage4_results, idx>>
              ELSE /\ stage4_results' = (browser :> r.stage) @@ stage4_results
                   /\ idx' = idx + 1
                   /\ pc' = NextPosition(pc, idx + 1, Len(browsers))
    /\ UNCHANGED <<ext, validatorVars, toolVars, browsers, stages, stage5_results, summary>>

\* results['stages'].append({'stage_num': 4, ..., 'per_browser': stage4_results})
Stage4Merge ==
    /\ pc = "stage4_merge"
    /\ stages' = Append(stages, [stage_num |-> 4, name |-> "Browser Load Test",
                                 per_browser |-> stage4_results])
    /\ pc' = NextPosition(pc, idx, Len(browsers))
    /\ idx' = IF pc' = "stage4" THEN idx ELSE 0
    /\ UNCHANGED <<ext, validatorVars, toolVars, browsers, stage4_results, stage5_results, summary, calls>>

\* one iteration of `for browser in self.browsers` of stage 5
Stage5Browser ==
    /\ pc = "stage5"
    /\ idx < Len(browsers)
    /\ \E installed \in BOOLEAN :
         LET browser == browsers[idx + 1]
             b == BoundBrowser(browsers, idx + 1)
             result == runtime_behavior_test(ext, b, installed)
             r == run_stage(5, "Runtime Behavior (" \o browser \o ")", result)
         IN  /\ calls' = Append(calls, [stage_num |-> 5, key |-> browser, browser |-> b,
                                      result |-> result,
                                      tests |-> run_all_tests(ext, b, installed)])
             /\ IF r.propagated
                THEN pc' = "aborted" /\ UNCHANGED <<stage5_results, idx>>
                ELSE /\ stage5_results' = (browser :> r.stage) @@ stage5_results
                     /\ idx' = idx + 1
                     /\ pc' = NextPosition(pc, idx + 1, Len(browsers))
    /\ UNCHANGED <<ext, validatorVars, toolVars, browsers, stages, stage4_results, summary>>

\* results['stages'].append({'stage_num': 5, ..., 'per_browser': stage5_results})
Stage5Merge ==
    /\ pc = "stage5_merge"
    /\ stages' = Append(stages, [stage_num |-> 5, name |-> "Runtime Behavior Test",
                                 per_browser |-> stage5_results])
    /\ pc' = NextPosition(pc, idx, Len(browsers))
    /\ idx' = 0
    /\ UNCHANGED <<ext, validatorVars, toolVars, browsers, stage4_results, stage5_results, summary, calls>>

Stage6 ==
    /\ pc = "stage6"
    /\ \E env \in Stage6Envs :
         FlatStage(6, "Compatibility Analysis", compatibility_analysis(browsers, env))

\* results['summary'] = self._calculate_summary(results); return results
Summarize ==
    /\ pc = "summary"
    /\ summary' = calculate_summary(stages)
    /\ pc' = NextPosition(pc, idx, Len(browsers))
    /\ UNCHANGED <<ext, validatorVars, toolVars, browsers, idx, stages, stage4_results, stage5_results, calls>>

PipelineNext ==
    \/ Start
    \/ Stage1
    \/ Stage2
    \/ Stage3
    \/ Stage4Browser
    \/ Stage4Merge
    \/ Stage5Browser
    \/ Stage5Merge
    \/ Stage6
    \/ Summarize

PipelineSpec == PipelineInit /\ [][PipelineNext]_vars

(***************************************************************************)
(* Claims about TestingPipeline                                            *)
(***************************************************************************)
Done == pc = "done"

ExpectedCalls(n) == <<1, 2, 3>> \o [k \in 1..n |-> 4] \o [k \in 1..n |-> 5] \o <<6>>

\* C1: run() executes the stages in the order 1..6, each once (4 and 5 once
\* per requested browser) whatever the earlier stages reported, and the
\* returned stages list has exactly six entries with stage_num 1..6 in order.
C1_StagesInOrder ==
    /\ Len(stages) <= 6
    /\ \A k \in 1..Len(stages) : stages[k].stage_num = k
    /\ [k \in 1..Len(calls) |-> calls[k].stage_num]
          = SubSeq(ExpectedCalls(Len(browsers)), 1, Len(calls))
    /\ Done => Len(stages) = 6 /\ Len(calls) = 4 + 2 * Len(browsers)

C1_Witness ==
    /\ Done
    /\ Len(browsers) = 2
    /\ ~stages[1].success
    /\ ~stages[3].success
    /\ Len(stages) = 6

\* the record run() keeps for a call: the flat stage entry, or the sub-result
\* stored under the loop variable
RecordOf(c) ==
    IF c.stage_num = 4 THEN stage4_results[c.key]
    ELSE IF c.stage_num = 5 THEN stage5_results[c.key]
    ELSE stages[c.stage_num]

\* call k is the latest one for its stage and key (a browser requested twice
\* overwrites its sub-result)
IsLatest(k) ==
    \A j \in (k + 1)..Len(calls) :
        ~(calls[j].stage_num = calls[k].stage_num /\ calls[j].key = calls[k].key)

\* what the function of the stage of call c can return or raise on ext
PossibleResults(c) ==
    CASE c.stage_num = 1 -> {check_static_files(ext, env) : env \in Stage1Envs}
      [] c.stage_num = 2 -> {validate_manifest(ext, env) : env \in Stage2Envs}
      [] c.stage_num = 3 -> {lint_code(env) : env \in Stage3Envs}
      [] c.stage_num = 4 -> {browser_load_test(ext, c.key)}
      [] c.stage_num = 5 -> {runtime_behavior_test(ext, c.key, i) : i \in BOOLEAN}
      [] c.stage_num = 6 -> {compatibility_analysis(browsers, env) : env \in Stage6Envs}

\* C2: a stage function that raises is recorded as success = false with the
\* exception message as its only error and no warnings; the exception does not
\* leave run(); every other stage still runs and records what its own function
\* returned on the extension.
C2_RaiseIsIsolated ==
    /\ pc # "aborted"
    /\ \A k \in 1..Len(calls) :
          /\ calls[k].result \in PossibleResults(calls[k])
          /\ IsLatest(k) =>
                LET rec == RecordOf(calls[k])
                    res == calls[k].result
                IN  IF res.raised
                    THEN rec.success = FALSE /\ rec.errors = <<res.message>> /\ rec.warnings = <<>>
                    ELSE /\ rec.success = res.success
                         /\ rec.errors = res.errors
                         /\ rec.warnings = res.warnings
    /\ Done => Len(stages) = 6 /\ Len(calls) = 4 + 2 * Len(browsers)

C2_Witness ==
    /\ Done
    /\ calls[3].result.raised
    /\ ~stages[3].success /\ Len(stages[3].errors) = 1
    /\ stages[1].success /\ stages[2].success /\ stages[6].success
    /\ \A b \in DOMAIN stage5_results : stage5_results[b].success

RECURSIVE SumOver(_, _)
SumOver(f, S) ==
    IF S = {} THEN 0
    ELSE LET x == CHOOSE y \in S : TRUE IN f[x] + SumOver(f, S \ {x})

LatestCalls == {k \in 1..Len(calls) : IsLatest(k)}

ErrorsReported(k) == IF calls[k].result.raised THEN 1 ELSE Len(calls[k].result.errors)
WarningsReported(k) == IF calls[k].result.raised THEN 0 ELSE Len(calls[k].result.warnings)

\* C3: total_errors (total_warnings) is the number of errors (warnings) of the
\* flat stages 1, 2, 3, 6 plus those of every per-browser sub-result of stages
\* 4 and 5, each counted once.
C3_TotalsCountOnce ==
    Done =>
        /\ summary.total_errors = SumOver([k \in 1..Len(calls) |-> ErrorsReported(k)], LatestCalls)
        /\ summary.total_warnings = SumOver([k \in 1..Len(calls) |-> WarningsReported(k)], LatestCalls)

C3_Witness ==
    /\ Done
    /\ Len(browsers) = 2 /\ browsers[1] # browsers[2]
    /\ Len(stages[3].errors) = 2
    /\ \E b \in DOMAIN stage5_results : Len(stage5_results[b].errors) > 0
    /\ \E b \in DOMAIN stage5_results : Len(stage5_results[b].warnings) > 0
    /\ summary.total_errors > 3
    /\ summary.total_warnings > 1

\* a logical stage passed: its flat result succeeded, or every one of its
\* per-browser sub-results did
StagePassed(stage) ==
    IF "per_browser" \in DOMAIN stage
    THEN \A b \in DOMAIN stage.per_browser : stage.per_browser[b].success
    ELSE stage.success

\* C4: a fanned-out stage counts as passed exactly when every per-browser
\* sub-result succeeded; a run in which everything succeeded has
\* passed_stages = total_stages and success = true.
C4_FanOutPassedWhenAllSucceed ==
    Done =>
        /\ summary.passed_stages = Cardinality({k \in 1..Len(stages) : StagePassed(stages[k])})
        /\ (\A k \in 1..Len(stages) : StagePassed(stages[k])) =>
              summary.passed_stages = summary.total_stages /\ summary.success

\* C5: total_stages is 6 whatever the browsers and the outcomes, and
\* 0 <= passed_stages <= total_stages, failed_stages = total_stages - passed_stages.
C5_SixStages ==
    Done =>
        /\ summary.total_stages = 6
        /\ 0 <= summary.passed_stages
        /\ summary.passed_stages <= summary.total_stages
        /\ summary.failed_stages = summary.total_stages - summary.passed_stages

C5_Witness ==
    /\ Done
    /\ Len(browsers) = 2 /\ browsers[1] = browsers[2]
    /\ summary.total_stages = 6
    /\ summary.passed_stages = 4

CallsOf(num) == SelectSeq(calls, LAMBDA c : c.stage_num = num)

SubStageName(num, b) ==
    (IF num = 4 THEN "Browser Load (" ELSE "Runtime Behavior (") \o b \o ")"

\* C6: in stages 4 and 5 every requested browser gets its own sub-stage, run
\* against that browser whatever happened to the browsers before it, and the
\* fanned-out entry is in the result only with a sub-result for every
\* requested browser.
C6_EveryBrowserHasSubResult ==
    /\ \A num \in {4, 5} :
          LET cs == CallsOf(num) IN
          /\ Len(cs) <= Len(browsers)
          /\ \A k \in 1..Len(cs) : cs[k].key = browsers[k] /\ cs[k].browser = browsers[k]
          /\ Len(stages) >= num =>
                /\ Len(cs) = Len(browsers)
                /\ DOMAIN stages[num].per_browser = Range(browsers)
                /\ \A b \in Range(browsers) :
                      /\ stages[num].per_browser[b].stage_num = num
                      /\ stages[num].per_browser[b].name = SubStageName(num, b)

C6_Witness ==
    /\ Done
    /\ browsers = <<"chrome", "firefox">>
    /\ CallsOf(5)[1].result.raised
    /\ ~stages[5].per_browser["chrome"].success
    /\ stages[5].per_browser["firefox"].success

(***************************************************************************)
(* Python floats.  A non-negative number is a sequence of NLimbs limbs of  *)
(* LimbBits bits, lowest first; the lowest bit weighs 2^-FracBits, so the  *)
(* last limb is the integer part.  The scores are below 2^7 and a          *)
(* hundredfold of them below 2^14: every value fits.                       *)
(***************************************************************************)
LimbBits == 14
NLimbs == 5
FracBits == 56
Mantissa == 53
Base == 2^LimbBits

Zero == <<0, 0, 0, 0, 0>>

\* the limbs of the number whose limbs, before the carries, are s
Normalize(s) ==
    LET t2 == s[2] + s[1] \div Base
        t3 == s[3] + t2 \div Base
        t4 == s[4] + t3 \div Base
        t5 == s[5] + t4 \div Base
    IN  <<s[1] % Base, t2 % Base, t3 % Base, t4 % Base, t5>>

\* the exact sum
Add(x, y) == Normalize(<<x[1] + y[1], x[2] + y[2], x[3] + y[3], x[4] + y[4], x[5] + y[5]>>)

\* the exact product of a natural number (at most 100) and a float
Times(n, x) == Normalize(<<n * x[1], n * x[2], n * x[3], n * x[4], n * x[5]>>)

\* bit i of x, the bits numbered from 0
BitAt(x, i) == (x[i \div LimbBits + 1] \div 2^(i % LimbBits)) % 2

\* some bit of x below bit i is set
AnyBelow(x, i) ==
    \/ \E k \in 1..(i \div LimbBits) : x[k] # 0
    \/ x[i \div LimbBits + 1] % 2^(i % LimbBits) # 0

\* the number of the highest bit set in x # Zero
Highest(x) ==
    LET k == CHOOSE j \in 1..NLimbs : x[j] # 0 /\ \A h \in (j + 1)..NLimbs : x[h] = 0
        b == CHOOSE c \in 0..(LimbBits - 1) : 2^c <= x[k] /\ x[k] < 2^(c + 1)
    IN  LimbBits * (k - 1) + b

\* x with the bits below bit i cleared
ClearBelow(x, i) ==
    LET T(k) == IF k < i \div LimbBits + 1 THEN 0
                ELSE IF k = i \div LimbBits + 1
                THEN (x[k] \div 2^(i % LimbBits)) * 2^(i % LimbBits)
                ELSE x[k]
    IN  <<T(1), T(2), T(3), T(4), T(5)>>

\* the number whose only bit is bit i
OneBit(i) ==
    LET T(k) == IF k = i \div LimbBits + 1 THEN 2^(i % LimbBits) ELSE 0
    IN  <<T(1), T(2), T(3), T(4), T(5)>>

\* the float nearest to x: Mantissa significant bits, ties to even
RoundToFloat(x) ==
    IF x = Zero \/ Highest(x) < Mantissa THEN x
    ELSE LET cut == Highest(x) - (Mantissa - 1)
             up == BitAt(x, cut - 1) = 1 /\ (AnyBelow(x, cut - 1) \/ BitAt(x, cut) = 1)
         IN  IF up THEN Add(ClearBelow(x, cut), OneBit(cut)) ELSE ClearBelow(x, cut)

\* int * float and float + float as Python computes them
FloatMul(n, x) == RoundToFloat(Times(n, x))
FloatAdd(x, y) == RoundToFloat(Add(x, y))

\* float(n) of a natural number
FromInt(n) == <<0, 0, 0, 0, n>>

\* the integer part
Floor(x) == x[NLimbs]

\* round(x, 2) in hundredths: the exact value times 100, rounded to the nearest
\* integer, ties to even
Round2(x) ==
    LET y == Times(100, x)
        n == Floor(y)
    IN  IF BitAt(y, FracBits - 1) = 1 /\ (AnyBelow(y, FracBits - 1) \/ n % 2 = 1)
        THEN n + 1 ELSE n

(***************************************************************************)
(* ScoringEngine (src/exttester/scoring_engine.py).  A dict is a function  *)
(* on the keys it holds; <<>> is the empty dict.                           *)
(***************************************************************************)
\* the floats of the literals in ScoreWeights and in the custom weights of the
\* tests: 0.30 is 0x1.3333333333333p-2, 0.20 is 0x1.999999999999ap-3, 0.15 is
\* 0x1.3333333333333p-3, 0.40 is 0x1.999999999999ap-2, 0.10 is 0x1.999999999999ap-4
Float_0_30 == <<3276, 13107, 3276, 4915, 0>>
Float_0_20 == <<13108, 3276, 13107, 3276, 0>>
Float_0_15 == <<9830, 6553, 9830, 2457, 0>>
Float_0_40 == <<9832, 6553, 9830, 6553, 0>>
Float_0_10 == <<6554, 9830, 6553, 1638, 0>>

ScoreWeights ==
    [security |-> Float_0_30, performance |-> Float_0_20, store_compliance |-> Float_0_20,
     code_quality |-> Float_0_15, privacy |-> Float_0_15]

CustomWeights ==
    [security |-> Float_0_40, performance |-> Float_0_20, store_compliance |-> Float_0_20,
     code_quality |-> Float_0_10, privacy |-> Float_0_10]

\* the substrings the engine looks for that a finding or an error holds
\* (lower-cased where the engine lower-cases)
Keywords(f) ==
    CASE f = "popup.js: uses eval()" -> {"eval"}
      [] f = "CSP allows 'unsafe-eval'" -> {"eval", "unsafe-eval"}
      [] f = "CSP allows 'unsafe-inline'" -> {"unsafe-inline"}
      [] f = "popup.js: references remote URL" -> {"remote"}
      [] f = "popup.js: uses innerHTML (XSS risk)" -> {"innerHTML"}
      [] f = "popup.js: uses document.write()" -> {"document.write"}
      [] f = "Overly broad host permission: <all_urls>" -> {"broad", "permission"}
      [] f = "Missing privacy policy for tracking and analytics cookies"
            -> {"missing", "privacy policy", "tracking", "analytics", "cookies"}
      [] f = "Permission 'debugger' risk: Critical" -> {"permission", "Critical"}
      [] f = "Permission 'cookies' risk: High" -> {"permission", "cookies", "High"}
      [] f = "Permission 'tabs' risk: Medium" -> {"permission"}
      [] f = "manifest.json not found in extension root" -> {"manifest"}
      [] f = "'<all_urls>' in host_permissions is too broad - specify specific hosts"
            -> {"permission", "broad"}
      [] f = "Missing icon size 128" -> {"missing", "icon"}
      [] OTHER -> {}

\* the number of elements of s that hold one of the keywords
Holding(kws, s) == Cardinality({k \in 1..Len(s) : Keywords(s[k]) \cap kws # {}})

Clamp(score) == IF score < 0 THEN 0 ELSE IF score > 100 THEN 100 ELSE score

\* as calculate_security_score, with max(0, score) for max(0, min(100, score))
calculate_security_score_no_cap(d) ==
    LET security == Get(d, "security", <<>>)
        findings == Get(security, "findings", <<>>)
        permission_findings == Get(security, "permission_findings", <<>>)
        score == Get(security, "score", 100)
                 - 15 * Holding({"eval", "unsafe-eval"}, findings)
                 - 10 * Holding({"unsafe-inline", "remote"}, findings)
                 - 5 * Holding({"High", "Critical"}, permission_findings)
    IN  IF score < 0 THEN 0 ELSE score

calculate_security_score(d) ==
    LET security == Get(d, "security", <<>>)
        base_score == Get(security, "score", 100)
        findings == Get(security, "findings", <<>>)
        permission_findings == Get(security, "permission_findings", <<>>)
        critical_deductions == 15 * Holding({"eval", "unsafe-eval"}, findings)
        high_deductions == 10 * Holding({"unsafe-inline", "remote"}, findings)
        medium_deductions == 5 * Holding({"High", "Critical"}, permission_findings)
    IN  Clamp(base_score - critical_deductions - high_deductions - medium_deductions)

calculate_performance_score(d) ==
    LET perf == Get(d, "performance", <<>>)
        total_size == Get(perf, "total_size_mb", 0)
        file_count == Get(perf, "file_count", 0)
        largest_mb == Get(perf, "largest_file_mb", 0)
    IN  Clamp(100
              - (IF total_size > 10 THEN 30 ELSE IF total_size > 5 THEN 15
                 ELSE IF total_size > 2 THEN 5 ELSE 0)
              - (IF file_count > 500 THEN 20 ELSE IF file_count > 200 THEN 10 ELSE 0)
              - (IF largest_mb > 5 THEN 15 ELSE IF largest_mb > 2 THEN 8 ELSE 0))

\* not x, for x a string or None (absent)
Falsy(x) == x = ""

\* the deductions of the compliance score for the errors of one browser
ComplianceDeductions(errors) ==
    10 * Holding({"manifest"}, errors)
    + 15 * Cardinality({k \in 1..Len(errors) :
                            {"permission", "broad"} \subseteq Keywords(errors[k])})
    + 5 * Cardinality({k \in 1..Len(errors) : {"icon", "missing"} \subseteq Keywords(errors[k])})

calculate_compliance_score(d) ==
    LET bs == Get(d, "browsers", <<>>)
        meta == Get(d, "meta", <<>>)
    IN  Clamp(100
              - SumOver([b \in DOMAIN bs |-> ComplianceDeductions(Get(bs[b], "errors", <<>>))],
                        DOMAIN bs)
              - (IF Falsy(Get(meta, "name", "")) THEN 20 ELSE 0)
              - (IF Falsy(Get(meta, "version", "")) THEN 15 ELSE 0)
              - (IF Falsy(Get(meta, "description", "")) THEN 10 ELSE 0))

calculate_code_quality_score(d) ==
    LET bs == Get(d, "browsers", <<>>)
        total_errors == SumOver([b \in DOMAIN bs |-> Len(Get(bs[b], "errors", <<>>))], DOMAIN bs)
        total_warnings ==
            SumOver([b \in DOMAIN bs |-> Len(Get(bs[b], "warnings", <<>>))], DOMAIN bs)
        findings == Get(Get(d, "security", <<>>), "findings", <<>>)
    IN  Clamp(100 - total_errors * 8 - total_warnings * 3
              - 5 * Holding({"innerHTML"}, findings)
              - 5 * Holding({"document.write"}, findings))

calculate_privacy_score(d) ==
    LET security == Get(d, "security", <<>>)
        findings == Get(security, "findings", <<>>)
        permission_risk == Get(security, "permission_risk", "Low")
    IN  Clamp(100
              - 20 * Holding({"privacy policy"}, findings)
              - 15 * Holding({"tracking"}, findings)
              - 10 * Holding({"analytics"}, findings)
              - 5 * Holding({"cookies", "storage"}, findings)
              - (IF permission_risk = "Critical" THEN 30
                 ELSE IF permission_risk = "High" THEN 20
                 ELSE IF permission_risk = "Medium" THEN 10 ELSE 0))

Grades == <<"F", "D", "C-", "C", "C+", "B-", "B", "B+", "A-", "A", "A+">>

\* _score_to_grade compares a non-negative float with integer thresholds:
\* score >= t is Floor(score) >= t
\* as score_to_grade, with the branches for B and B- exchanged
score_to_grade_swapped(score) ==
    LET n == Floor(score)
    IN  IF n >= 95 THEN "A+" ELSE IF n >= 90 THEN "A" ELSE IF n >= 85 THEN "A-"
        ELSE IF n >= 80 THEN "B+" ELSE IF n >= 75 THEN "B-" ELSE IF n >= 70 THEN "B"
        ELSE IF n >= 65 THEN "C+" ELSE IF n >= 60 THEN "C" ELSE IF n >= 55 THEN "C-"
        ELSE IF n >= 50 THEN "D" ELSE "F"

score_to_grade(score) ==
    LET n == Floor(score)
    IN  IF n >= 95 THEN "A+" ELSE IF n >= 90 THEN "A" ELSE IF n >= 85 THEN "A-"
        ELSE IF n >= 80 THEN "B+" ELSE IF n >= 75 THEN "B" ELSE IF n >= 70 THEN "B-"
        ELSE IF n >= 65 THEN "C+" ELSE IF n >= 60 THEN "C" ELSE IF n >= 55 THEN "C-"
        ELSE IF n >= 50 THEN "D" ELSE "F"

\* the recommendations of the findings, in order
RECURSIVE FindingRecommendations(_)
FindingRecommendations(findings) ==
    IF findings = <<>> THEN <<>>
    ELSE LET kws == Keywords(Head(findings))
         IN  If("eval" \in kws,
                "CRITICAL: Remove eval() usage - Chrome Web Store will reject this")
             \o If("unsafe-eval" \in kws, "CRITICAL: Remove 'unsafe-eval' from CSP")
             \o If("privacy policy" \in kws,
                   "Add a privacy policy URL (required for sensitive permissions)")
             \o FindingRecommendations(Tail(findings))

\* the texts are the engine's without their leading symbol
generate_recommendations(d) ==
    LET security == Get(d, "security", <<>>)
        perf == Get(d, "performance", <<>>)
        bs == Get(d, "browsers", <<>>)
        icons == Cardinality({b \in DOMAIN bs :
                     \E k \in 1..Len(Get(bs[b], "errors", <<>>)) :
                         {"icon", "missing"} \subseteq Keywords(bs[b].errors[k])})
        recommendations ==
            FindingRecommendations(Get(security, "findings", <<>>))
            \o If(Get(perf, "total_size_mb", 0) > 5,
                  "Reduce extension size - consider minification and removing unused assets")
            \o If(Get(perf, "largest_file_mb", 0) > 2,
                  "Largest file is " \o ToString(Get(perf, "largest_file_mb", 0))
                      \o "MB - consider splitting or compressing")
            \o Repeat("Add all required icon sizes (16x16, 48x48, 128x128)", icons)
    IN  IF recommendations = <<>>
        THEN <<"No critical issues found - extension looks good!">>
        ELSE recommendations

\* one entry of the breakdown; weighted is round(score * weight, 2) in hundredths
Category(score, weight) ==
    [score |-> score, weight |-> weight, weighted |-> Round2(FloatMul(score, weight))]

\* calculate_final_score of an engine whose weights are w; final_score is
\* round(final_score, 2) in hundredths
calculate_final_score(w, d) ==
    LET security_score == calculate_security_score(d)
        performance_score == calculate_performance_score(d)
        compliance_score == calculate_compliance_score(d)
        code_quality_score == calculate_code_quality_score(d)
        privacy_score == calculate_privacy_score(d)
        final_score ==
            FloatAdd(FloatAdd(FloatAdd(FloatAdd(
                FloatMul(security_score, w.security),
                FloatMul(performance_score, w.performance)),
                FloatMul(compliance_score, w.store_compliance)),
                FloatMul(code_quality_score, w.code_quality)),
                FloatMul(privacy_score, w.privacy))
    IN  [ final_score |-> Round2(final_score),
          grade |-> score_to_grade(final_score),
          breakdown |->
              [ security |-> Category(security_score, w.security),
                performance |-> Category(performance_score, w.performance),
                store_compliance |-> Category(compliance_score, w.store_compliance),
                code_quality |-> Category(code_quality_score, w.code_quality),
                privacy |-> Category(privacy_score, w.privacy) ],
          recommendations |-> generate_recommendations(d) ]

(***************************************************************************)
(* The records handed to the engine.  A section that is absent is no key   *)
(* of the record.                                                          *)
(***************************************************************************)
EmptyDict == [k \in {} |-> 0]

SecuritySamples ==
    { EmptyDict,
      [security |-> [score |-> 100, findings |-> <<>>, permission_risk |-> "Low"]],
      [security |-> [score |-> 96, findings |-> <<>>, permission_risk |-> "High"]],
      [security |->
          [score |-> 30,
           findings |-> <<"popup.js: uses eval()", "CSP allows 'unsafe-eval'",
                          "Missing privacy policy for tracking and analytics cookies">>,
           permission_findings |-> <<"Permission 'debugger' risk: Critical",
                                     "Permission 'tabs' risk: Medium">>,
           permission_risk |-> "Critical"]],
      [security |->
          [score |-> 130,
           findings |-> <<"popup.js: uses innerHTML (XSS risk)",
                          "popup.js: uses document.write()",
                          "popup.js: references remote URL", "CSP allows 'unsafe-inline'">>,
           permission_risk |-> "Medium"]] }

PerformanceSamples ==
    { EmptyDict,
      [performance |-> [total_size_mb |-> 1, file_count |-> 10]],
      [performance |-> [total_size_mb |-> 6, file_count |-> 10, largest_file_mb |-> 3]],
      [performance |-> [total_size_mb |-> 50, file_count |-> 1000, largest_file_mb |-> 6]] }

RuleErrors ==
    << "manifest.json not found in extension root",
       "'<all_urls>' in host_permissions is too broad - specify specific hosts",
       "Missing icon size 128" >>

BrowsersSamples ==
    { EmptyDict,
      [browsers |-> [chrome |-> [errors |-> <<>>, warnings |-> <<>>]]],
      [browsers |-> [chrome |-> [errors |-> <<"error1">>, warnings |-> <<>>]]],
      [browsers |-> [chrome |-> [errors |-> <<>>,
                                 warnings |-> <<"Manifest v2 is deprecated - migrate to Manifest v3">>]]],
      [browsers |-> [chrome |-> [errors |-> RuleErrors, warnings |-> <<"warning1">>],
                     firefox |-> [errors |-> RuleErrors]]] }

MetaSamples ==
    { EmptyDict,
      [meta |-> [name |-> "Perfect", version |-> "1.0.0"]],
      [meta |-> [name |-> "Perfect", version |-> "1.0.0", description |-> "An extension"]],
      [meta |-> [name |-> "", version |-> "1.0.0", description |-> "An extension"]] }

Records ==
    { s @@ p @@ b @@ m :
        s \in SecuritySamples, p \in PerformanceSamples, b \in BrowsersSamples, m \in MetaSamples }

\* the record of another extension, scored by the same engine
OtherRecord ==
    [ security |-> [score |-> 30, findings |-> <<"popup.js: uses eval()">>,
                    permission_risk |-> "Critical"],
      performance |-> [total_size_mb |-> 50, file_count |-> 1000],
      browsers |-> [chrome |-> [errors |-> RuleErrors], firefox |-> [errors |-> RuleErrors]] ]

(***************************************************************************)
(* ScoringEngine as a state machine                                        *)
(***************************************************************************)
OthersIdle ==
    /\ ext = MinimalExtension
    /\ v_errors = <<>>
    /\ v_warnings = <<>>
    /\ v_browser_type = CHROME
    /\ v_detected = {}
    /\ v_ret = NoCall
    /\ v_calls = 0
    /\ PipelineIdle
    /\ d_log = <<>>

\* ScoringEngine.__init__, with the default or with custom weights
ScoringInit ==
    /\ weights \in {ScoreWeights, CustomWeights}
    /\ data \in Records
    /\ score_log = <<>>
    /\ grade_call = NoCall
    /\ scan_call = NoCall
    /\ AnalyzersIdle
    /\ OthersIdle

\* as Calculate, with the recommendations kept on the engine from call to call
Calculate_keeps_recommendations ==
    /\ Len(score_log) < MaxScoreCalls
    /\ \E d \in {data, OtherRecord} :
         LET r == calculate_final_score(weights, d)
             kept == IF score_log = <<>> THEN <<>>
                     ELSE score_log[Len(score_log)].result.recommendations
         IN  score_log' = Append(score_log,
                 [data |-> d, data_after |-> d, weights |-> weights, weights_after |-> weights,
                  result |-> [r EXCEPT !.recommendations = kept \o @]])
    /\ UNCHANGED <<weights, data, grade_call, scan_call, ext, validatorVars, pipelineVars, d_log, analyzerVars>>

\* engine.calculate_final_score(extension_data), on the caller's record or on
\* the record of another extension
Calculate ==
    /\ Len(score_log) < MaxScoreCalls
    /\ \E d \in {data, OtherRecord} :
         score_log' = Append(score_log,
             [data |-> d, data_after |-> d, weights |-> weights, weights_after |-> weights,
              result |-> calculate_final_score(weights, d)])
    /\ UNCHANGED <<weights, data, grade_call, scan_call, ext, validatorVars, pipelineVars, d_log, analyzerVars>>

ScoringNext == Calculate

ScoringSpec == ScoringInit /\ [][ScoringNext]_vars

(***************************************************************************)
(* Claims about calculate_final_score                                      *)
(***************************************************************************)
Categories == {"security", "performance", "store_compliance", "code_quality", "privacy"}

\* the sub-score of a category in a result
Sub(r, c) == r.breakdown[c].score

\* C14: for every input record, the empty record included, each of the five
\* sub-scores lies in [0,100] and, with the default weights, final_score lies in
\* [0,100] (final_score is in hundredths here).
C14_ScoresInRange ==
    \A k \in 1..Len(score_log) :
        LET c == score_log[k]
        IN  /\ \A cat \in Categories : Sub(c.result, cat) \in 0..100
            /\ c.weights = ScoreWeights => c.result.final_score \in 0..10000

C14_Witness ==
    \E j, k \in 1..Len(score_log) :
        /\ score_log[j].weights = ScoreWeights
        /\ DOMAIN score_log[j].data = {}
        /\ score_log[j].result.final_score = 9100
        /\ score_log[k].data = OtherRecord
        /\ Sub(score_log[k].result, "store_compliance") = 0

\* the weighted sum of the sub-scores of a result under the default weights, in
\* hundredths
WeightedSum(r) ==
    30 * Sub(r, "security") + 20 * Sub(r, "performance") + 20 * Sub(r, "store_compliance")
    + 15 * Sub(r, "code_quality") + 15 * Sub(r, "privacy")

\* C15: with the default weights final_score is the weighted sum of the five
\* sub-scores of the breakdown (0.30, 0.20, 0.20, 0.15, 0.15), the grade is the
\* grade of that sum, and whenever all five sub-scores are 100 final_score is 100
\* and the grade is A+.
C15_WeightedSumAndGrade ==
    \A k \in 1..Len(score_log) :
        LET r == score_log[k].result
        IN  score_log[k].weights = ScoreWeights =>
                /\ r.final_score = WeightedSum(r)
                /\ r.grade = score_to_grade(FromInt(WeightedSum(r) \div 100))
                /\ (\A cat \in Categories : Sub(r, cat) = 100) =>
                       r.final_score = 10000 /\ r.grade = "A+"

C19_MissingSectionIsOptimal ==
    \A k \in 1..Len(score_log) :
        LET d == score_log[k].data
            r == score_log[k].result
            absent(S) == S \cap DOMAIN d = {}
        IN  /\ absent({"security"}) => Sub(r, "security") = 100 /\ Sub(r, "privacy") = 100
            /\ absent({"performance"}) => Sub(r, "performance") = 100
            /\ absent({"browsers", "meta"}) => Sub(r, "store_compliance") = 100
            /\ absent({"browsers", "security"}) => Sub(r, "code_quality") = 100
            /\ DOMAIN d = {} => \A cat \in Categories : Sub(r, cat) = 100

(***************************************************************************)
(* _score_to_grade called directly                                         *)
(***************************************************************************)
\* the scores handed to _score_to_grade, in halves of a point: 0, 0.5, .. 100
HalfScores == 0..200

\* the float of h halves
HalfFloat(h) == <<0, 0, 0, (h % 2) * (Base \div 2), h \div 2>>

GradeInit ==
    /\ grade_call = NoCall
    /\ weights = ScoreWeights
    /\ data = NoRecord
    /\ score_log = <<>>
    /\ scan_call = NoCall
    /\ AnalyzersIdle
    /\ OthersIdle

\* engine._score_to_grade(score)
Grade ==
    /\ \E h \in HalfScores :
          grade_call' = [outcome |-> "returned", halves |-> h,
                         grade |-> score_to_grade(HalfFloat(h))]
    /\ UNCHANGED <<weights, data, score_log, scan_call, ext, validatorVars, pipelineVars, d_log, analyzerVars>>

GradeNext == Grade

GradeSpec == GradeInit /\ [][GradeNext]_vars

\* the place of a grade in the table, F lowest
Rank(g) == CHOOSE k \in 1..Len(Grades) : Grades[k] = g

Graded == grade_call.outcome = "returned"

\* C17: every score in [0,100] maps to exactly one of the eleven grades A+ .. F,
\* a higher score never maps to a lower grade, scores >= 95 map to A+ and scores
\* < 50 map to F.
C17_GradeTableMonotonic ==
    Graded =>
        /\ Cardinality({k \in 1..Len(Grades) : Grades[k] = grade_call.grade}) = 1
        /\ Len(Grades) = 11
        /\ \A h \in HalfScores :
              h <= grade_call.halves =>
                  Rank(score_to_grade(HalfFloat(h))) <= Rank(grade_call.grade)
        /\ grade_call.halves >= 2 * 95 => grade_call.grade = "A+"
        /\ grade_call.halves < 2 * 50 => grade_call.grade = "F"

C17_Witness == Graded /\ grade_call.halves = 2 * 72 + 1 /\ grade_call.grade = "B-"

\* the scores and grades of test_grade_conversion
TestGrades ==
    [ s \in {98, 95, 92, 88, 85, 82, 78, 75, 72, 68, 65, 62, 58, 40, 0} |->
        IF s \in {98, 95} THEN "A+" ELSE IF s = 92 THEN "A" ELSE IF s \in {88, 85} THEN "A-"
        ELSE IF s = 82 THEN "B+" ELSE IF s \in {78, 75} THEN "B" ELSE IF s = 72 THEN "B-"
        ELSE IF s = 68 THEN "C+" ELSE IF s = 65 THEN "C" ELSE IF s = 62 THEN "C-"
        ELSE IF s = 58 THEN "D" ELSE "F" ]

\* C18: _score_to_grade assigns the grades the grade-conversion test expects:
\* A+ to 95 and 98, A to 92, A- to 85 and 88, B+ to 82, B to 75 and 78, B- to 72,
\* C+ to 68, C to 65, C- to 62, D to 58, F to 40 and 0.
C18_TestGrades ==
    Graded =>
        \A s \in DOMAIN TestGrades :
            grade_call.halves = 2 * s => grade_call.grade = TestGrades[s]

(***************************************************************************)
(* The security scanner (src/exttester/security_scanner.py)                *)
(***************************************************************************)
PERMISSION_RISK ==
    [ tabs |-> "Medium", cookies |-> "High", webRequest |-> "High",
      webRequestBlocking |-> "Critical", history |-> "High", bookmarks |-> "Medium",
      nativeMessaging |-> "Critical", downloads |-> "High", management |-> "High",
      proxy |-> "Critical", debugger |-> "Critical", clipboardRead |-> "Medium",
      clipboardWrite |-> "Medium" ]

RiskOrder == [Low |-> 0, Medium |-> 1, High |-> 2, Critical |-> 3]

max_risk(current, new) == IF RiskOrder[new] > RiskOrder[current] THEN new ELSE current

\* as risk_score, with the two deductions exchanged
risk_score_swapped(findings, permission_findings) ==
    Clamp(100 - Len(findings) * 8 - Len(permission_findings) * 6)

risk_score(findings, permission_findings) ==
    Clamp(100 - Len(findings) * 6 - Len(permission_findings) * 8)

\* the permission findings of a permissions list, in order
RECURSIVE PermissionFindings(_)
PermissionFindings(permissions) ==
    IF permissions = <<>> THEN <<>>
    ELSE If(Head(permissions) \in DOMAIN PERMISSION_RISK,
            "Permission '" \o Head(permissions) \o "' risk: "
                \o Get(PERMISSION_RISK, Head(permissions), ""))
         \o PermissionFindings(Tail(permissions))

BroadHosts == {"<all_urls>", "*://*/*", "http://*/*", "https://*/*"}

RECURSIVE HostFindings(_)
HostFindings(hosts) ==
    IF hosts = <<>> THEN <<>>
    ELSE If(Head(hosts) \in BroadHosts, "Overly broad host permission: " \o Head(hosts))
         \o HostFindings(Tail(hosts))

\* the highest of Low and the risks in a set
RECURSIVE HighestRisk(_)
HighestRisk(risks) ==
    IF risks = {} THEN "Low"
    ELSE LET r == CHOOSE x \in risks : TRUE IN max_risk(HighestRisk(risks \ {r}), r)

\* what the scanner looks for in a source file
CodePatterns == {"eval(", "new Function", "innerHTML", "document.write", "https://"}

\* the findings of one source file holding the given patterns
FileFindings(patterns) ==
    If("eval(" \in patterns, "popup.js: uses eval()")
    \o If("new Function" \in patterns, "popup.js: uses Function() constructor")
    \o If("innerHTML" \in patterns, "popup.js: uses innerHTML (XSS risk)")
    \o If("document.write" \in patterns, "popup.js: uses document.write()")
    \o If("https://" \in patterns, "popup.js: references remote URL")

\* the findings of `files` source files that all hold the given patterns
RECURSIVE scan_source_files(_, _)
scan_source_files(files, patterns) ==
    IF files = 0 THEN <<>>
    ELSE FileFindings(patterns) \o scan_source_files(files - 1, patterns)

\* scan_extension of a directory x: manifest is what _load_manifest returns,
\* the parsed dict or {} for a missing or unreadable manifest.json
scan_extension(x) ==
    LET manifest == IF x.manifest = "dict" THEN x ELSE EmptyDict
        permissions == Get(manifest, "permissions", <<>>)
        host_permissions == Get(manifest, "host_permissions", <<>>)
        csp == Get(manifest, "content_security_policy", {})
        permission_findings == PermissionFindings(permissions)
        findings ==
            HostFindings(host_permissions)
            \o If("unsafe-eval" \in csp, "CSP allows 'unsafe-eval'")
            \o If("unsafe-inline" \in csp, "CSP allows 'unsafe-inline'")
            \o scan_source_files(x.files, x.patterns)
        permission_risk ==
            HighestRisk({PERMISSION_RISK[p] : p \in Range(permissions) \cap DOMAIN PERMISSION_RISK}
                        \cup (IF HostFindings(host_permissions) # <<>> THEN {"High"} ELSE {})
                        \cup (IF "unsafe-eval" \in csp THEN {"High"} ELSE {})
                        \cup (IF "unsafe-inline" \in csp THEN {"Medium"} ELSE {}))
    IN  [ findings |-> findings, permission_findings |-> permission_findings,
          permission_risk |-> permission_risk,
          score |-> risk_score(findings, permission_findings) ]

ScanPermissions == {"webRequestBlocking", "debugger", "tabs", "storage"}
ScanHosts == {"<all_urls>", "https://example.com/*"}

\* the extension directories scanned: manifest.json (parsed, missing or
\* unreadable), its permissions, host_permissions and content_security_policy,
\* and the source files
ScanInputs ==
    [ manifest : {"dict", "missing", "invalid"},
      permissions : SeqsUpTo(ScanPermissions, MaxPermissions),
      host_permissions : SeqsUpTo(ScanHosts, MaxHosts),
      content_security_policy : SUBSET {"unsafe-eval", "unsafe-inline"},
      files : {0, 1, ManyFiles},
      patterns : SUBSET CodePatterns ]

ScannerInit ==
    /\ scan_call = NoCall
    /\ weights = NoWeights
    /\ data = NoRecord
    /\ score_log = <<>>
    /\ grade_call = NoCall
    /\ AnalyzersIdle
    /\ OthersIdle

\* scan_extension(extension_path), called once on a directory
Scan ==
    /\ scan_call = NoCall
    /\ \E x \in ScanInputs :
          /\ x.manifest # "dict" =>
                 x.permissions = <<>> /\ x.host_permissions = <<>>
                 /\ x.content_security_policy = {}
          /\ x.files = 0 => x.patterns = {}
          /\ scan_call' = [outcome |-> "returned", input |-> x, result |-> scan_extension(x)]
    /\ UNCHANGED <<weights, data, score_log, grade_call, ext, validatorVars, pipelineVars, d_log, analyzerVars>>

ScannerNext == Scan

ScannerSpec == ScannerInit /\ [][ScannerNext]_vars

Scanned == scan_call.outcome = "returned"

\* C20: the scanner's score is max(0, min(100, 100 - 6 x #findings - 8 x
\* #permission_findings)) for all finding counts; hence a manifest requesting
\* webRequestBlocking and debugger with host_permissions <all_urls> gets a score
\* of at most 84.
C20_RiskScore ==
    Scanned =>
        LET r == scan_call.result
            x == scan_call.input
            raw == 100 - 6 * Len(r.findings) - 8 * Len(r.permission_findings)
        IN  /\ r.score = (IF raw < 0 THEN 0 ELSE IF raw > 100 THEN 100 ELSE raw)
            /\ ( /\ x.manifest = "dict"
                 /\ {"webRequestBlocking", "debugger"} \subseteq Range(x.permissions)
                 /\ "<all_urls>" \in Range(x.host_permissions) )
               => r.score <= 84

C20_Witness ==
    /\ Scanned
    /\ scan_call.input.permissions = <<"webRequestBlocking", "debugger">>
    /\ scan_call.input.host_permissions = <<"<all_urls>">>
    /\ scan_call.input.content_security_policy = {}
    /\ scan_call.input.files = 0
    /\ scan_call.result.score = 78
    /\ scan_call.result.permission_risk = "Critical"

(***************************************************************************)
(* The size analyzer (src/size_analyzer.py)                                *)
(***************************************************************************)
DEFAULT_WARN_MB == 25
DEFAULT_FAIL_MB == 50
LargestKept == 10

\* bytes in a megabyte; a byte count below 2^53 divided by it is an exact float
MB == 1024 * 1024

\* an optional argument: None, or the value given
None == <<>>
Given(v) == <<v>>

\* ExtensionSizeAnalyzer.__init__
SizeAnalyzer(files, warn_mb, fail_mb) ==
    [ files |-> files,
      warn_mb |-> IF warn_mb # None THEN warn_mb[1] ELSE DEFAULT_WARN_MB,
      fail_mb |-> IF fail_mb # None THEN fail_mb[1] ELSE DEFAULT_FAIL_MB ]

\* round(bytes / (1024 * 1024), 2) and the :.2f format, in hundredths of a MB:
\* the exact quotient rounded to the nearest hundredth, ties to even
RoundMb(bytes) ==
    LET part == (bytes % MB) * 100
        q == (bytes \div MB) * 100 + part \div MB
        r == part % MB
    IN  IF 2 * r > MB \/ (2 * r = MB /\ q % 2 = 1) THEN q + 1 ELSE q

\* f"{total_mb:.2f}"
Format2(h) == ToString(h \div 100) \o "." \o ToString((h % 100) \div 10) \o ToString(h % 10)

\* largest_files.sort(key=size, reverse=True): stable, larger sizes first
RECURSIVE SortBySizeDesc(_)
SortBySizeDesc(s) ==
    IF s = <<>> THEN <<>>
    ELSE LET rest == SortBySizeDesc(Tail(s))
             ahead == SelectSeq(rest, LAMBDA f : f.size > Head(s).size)
             behind == SelectSeq(rest, LAMBDA f : f.size <= Head(s).size)
         IN  ahead \o <<Head(s)>> \o behind

\* by_type: the bytes of each suffix
ByType(files) ==
    [ t \in {files[k].suffix : k \in 1..Len(files)} |->
        RoundMb(SumSeq([k \in 1..Len(files) |->
                           IF files[k].suffix = t THEN files[k].size ELSE 0])) ]

SizeMessage(total_bytes, threshold) ==
    "Extension size is " \o Format2(RoundMb(total_bytes)) \o " MB (exceeds "
        \o ToString(threshold) \o " MB threshold)"

\* ExtensionSizeAnalyzer.analyze; total_mb >= t compares exact values, so it is
\* total_bytes >= t * MB
analyze(a) ==
    LET total_bytes == SumSeq([k \in 1..Len(a.files) |-> a.files[k].size])
        sorted == SortBySizeDesc(a.files)
        fail == total_bytes >= a.fail_mb * MB
        warn == total_bytes >= a.warn_mb * MB
    IN  [ total_bytes |-> total_bytes,
          total_mb |-> RoundMb(total_bytes),
          by_type |-> ByType(a.files),
          largest_files |->
              [k \in 1..(IF Len(sorted) < LargestKept THEN Len(sorted) ELSE LargestKept) |->
                  [file |-> sorted[k].file, mb |-> RoundMb(sorted[k].size)]],
          warnings |-> If(~fail /\ warn, SizeMessage(total_bytes, a.warn_mb)),
          errors |-> If(fail, SizeMessage(total_bytes, a.fail_mb)) ]

\* the sizes of the files of the analyzed directories, in bytes
FileSizes == {1, 10 * MB, 25 * MB - 1, 25 * MB, 60 * MB}

\* the files of a directory, in the order rglob yields them
SizedFiles ==
    UNION { [1..n -> [file : {"a.js", "b.png"}, suffix : {".js", ".png"}, size : FileSizes]]
            : n \in 0..MaxSizedFiles }

\* a file's suffix is the suffix of its name
Directories ==
    { fs \in SizedFiles :
        \A k \in 1..Len(fs) : fs[k].suffix = (IF fs[k].file = "a.js" THEN ".js" ELSE ".png") }

SizeInit ==
    /\ size_call = NoCall
    /\ dep_call = NoCall
    /\ ScoringIdle
    /\ OthersIdle

\* ExtensionSizeAnalyzer(path, warn_mb, fail_mb).analyze(), called once
Analyze ==
    /\ size_call = NoCall
    /\ \E fs \in Directories, warn_mb \in {None, Given(10)}, fail_mb \in {None, Given(30)} :
          LET a == SizeAnalyzer(fs, warn_mb, fail_mb)
          IN  size_call' = [outcome |-> "returned", analyzer |-> a, report |-> analyze(a)]
    /\ UNCHANGED <<ext, validatorVars, pipelineVars, d_log, scoringVars, dep_call>>

SizeNext == Analyze

SizeSpec == SizeInit /\ [][SizeNext]_vars

\* C21: analyze emits exactly one Error and no Warning when the total size
\* exceeds the fail threshold, exactly one Warning and no Error when the total
\* exceeds the warn threshold but not the fail threshold, and neither when the
\* total does not exceed the warn threshold.
C21_SizeThresholds ==
    size_call.outcome = "returned" =>
        LET a == size_call.analyzer
            r == size_call.report
            over_fail == r.total_bytes > a.fail_mb * MB
            over_warn == r.total_bytes > a.warn_mb * MB
        IN  /\ over_fail => Len(r.errors) = 1 /\ r.warnings = <<>>
            /\ (over_warn /\ ~over_fail) => Len(r.warnings) = 1 /\ r.errors = <<>>
            /\ ~over_warn => r.errors = <<>> /\ r.warnings = <<>>

(***************************************************************************)
(* Claims about the results of the pipeline's stages                       *)
(***************************************************************************)
Stage6Results == SelectSeq(stages, LAMBDA s : s.stage_num = 6)

\* C22 as stated: in every run the errors list of stage 6 is empty.
C22_Stage6NeverErrors ==
    \A k \in 1..Len(Stage6Results) : Stage6Results[k].errors = <<>>

\* C22: stage 6 reports every finding of the compatibility checker as a
\* Warning: when the checker returns its report the errors list of stage 6 is
\* empty and the stage succeeds; the errors list is non-empty only when the
\* analysis raised, and then holds the exception message alone, with no
\* warnings and success false.
C22_Stage6FindingsAreWarnings ==
    \A k \in 1..Len(Stage6Results) :
        LET s == Stage6Results[k]
            call == CallsOf(6)[k].result
        IN  /\ call.errors = <<>> => s.errors = <<>> /\ s.success /\ s.warnings = call.warnings
            /\ s.errors # <<>> => s.errors = <<IOError>> /\ s.warnings = <<>> /\ ~s.success

C22_Witness ==
    /\ Done
    /\ browsers = <<"chrome", "firefox">>
    /\ Len(stages[6].warnings) = 4
    /\ stages[6].errors = <<>>
    /\ stages[6].success

\* C23: whether or not the browser is installed, run_all_tests returns a record
\* with the keys browser, success, results and summary, where summary holds
\* passed, total and failed with passed + failed = total = number of results,
\* and success is true exactly when passed = total.
C23_RunAllTestsRecord ==
    \A k \in 1..Len(calls) :
        calls[k].stage_num = 5 =>
            LET t == calls[k].tests
            IN  /\ ~t.raised
                /\ {"browser", "success", "results"} \subseteq DOMAIN t
                /\ t.has_summary
                /\ "summary" \in DOMAIN t
                /\ DOMAIN t.summary = {"passed", "total", "failed"}
                /\ t.summary.passed + t.summary.failed = t.summary.total
                /\ t.summary.total = Len(t.results)
                /\ t.success <=> t.summary.passed = t.summary.total

\* every result the pipeline has produced: the flat results and the
\* per-browser sub-results, merged or not yet merged
StageResults ==
    {stages[k] : k \in {j \in 1..Len(stages) : stages[j].stage_num \in {1, 2, 3, 6}}}
    \cup {stage4_results[b] : b \in DOMAIN stage4_results}
    \cup {stage5_results[b] : b \in DOMAIN stage5_results}
    \cup UNION {{stages[k].per_browser[b] : b \in DOMAIN stages[k].per_browser}
                : k \in {j \in 1..Len(stages) : stages[j].stage_num \in {4, 5}}}

\* C24: in every stage result the pipeline produces (the flat results of
\* stages 1, 2, 3 and 6 and every per-browser sub-result of stages 4 and 5),
\* success is true exactly when the errors list of that result is empty;
\* warnings alone never make a result fail.
C24_SuccessIffNoErrors ==
    \A s \in StageResults : s.success <=> s.errors = <<>>

C24_Witness ==
    /\ Done
    /\ stages[2].success /\ stages[2].warnings # <<>> /\ stages[2].errors = <<>>
    /\ ~stages[3].success /\ stages[3].errors # <<>>
    /\ \E b \in DOMAIN stages[5].per_browser :
          ~stages[5].per_browser[b].success /\ stages[5].per_browser[b].errors # <<>>

\* the automation call of a stage 4 or stage 5 sub-stage failed: it raised or
\* returned without success
CallFailed(c) == c.result.raised \/ ~c.result.success

\* C25: in stages 4 and 5 the automation call for each requested browser is
\* made exactly once per run (no automatic retry after a failure), and a failed
\* call surfaces in that browser's sub-result as success=false with exactly
\* one error string.
C25_OneCallOneError ==
    \A num \in {4, 5} :
        /\ Len(CallsOf(num)) <= Len(browsers)
        /\ Len(stages) >= num => Len(CallsOf(num)) = Len(browsers)
        /\ \A k \in 1..Len(calls) :
              (calls[k].stage_num = num /\ IsLatest(k) /\ CallFailed(calls[k])) =>
                  /\ ~RecordOf(calls[k]).success
                  /\ Len(RecordOf(calls[k]).errors) = 1

(***************************************************************************)
(* Claims about the order and the reuse of ExtensionValidator              *)
(***************************************************************************)
\* a validator that has reported nothing yet
Blank == [errors |-> <<>>, warnings |-> <<>>, detected |-> {}]

\* what each check of validate_extension reports on e by itself, in the order
\* of the claim: structure, referenced files, permissions, browser-specific
\* rules, version-specific rules, performance, security
NamedChecks(e, browser_type) ==
    << validate_manifest_structure(Blank, e),
       validate_required_files(Blank, e),
       validate_permissions(Blank, e),
       validate_browser_specifics(Blank, e, browser_type),
       VersionRequirements(Blank, e),
       validate_performance(Blank, e),
       validate_security(Blank, e) >>

\* the findings of list s that check c reported
ReportedBy(c, s) == {k \in 1..Len(s) : s[k] \in Range(c)}

\* in list s, the findings of the named checks come in the order of the
\* checks, each check's findings together and in the order it reports them
InCheckOrder(s, checks) ==
    /\ \A i \in 1..Len(checks) : \A j \in (i + 1)..Len(checks) :
          \A a \in ReportedBy(checks[i], s) : \A b \in ReportedBy(checks[j], s) : a < b
    /\ \A i \in 1..Len(checks) :
          SelectSeq(s, LAMBDA x : x \in Range(checks[i])) = checks[i]

\* C26: validate_extension runs its checks in the fixed order structure,
\* referenced-file existence, permissions, browser-specific rules,
\* manifest-version-specific rules, performance heuristics, security/CSP: in
\* the returned errors list and in the warnings list no finding of a later
\* check precedes a finding of an earlier check, and the lists are a function
\* of the extension and the target browser.
C26_FixedCheckOrder ==
    ChecksRan =>
        LET checks == NamedChecks(ext, v_browser_type)
        IN  /\ InCheckOrder(v_errors, [k \in 1..Len(checks) |-> checks[k].errors])
            /\ InCheckOrder(v_warnings, [k \in 1..Len(checks) |-> checks[k].warnings])
            /\ v_errors = RunChecks(Blank, ext, v_browser_type).errors
            /\ v_warnings = RunChecks(Blank, ext, v_browser_type).warnings

C26_Witness ==
    /\ ChecksRan
    /\ v_errors = <<"Missing required field 'name' in manifest.json",
                    "'unsafe-eval' found in CSP - this is a security risk">>
    /\ Len(v_warnings) >= 2

\* C27: after any sequence of validate_extension calls on one validator, the
\* errors and warnings returned by the latest call contain only findings of the
\* extension validated by that call, and detected_browsers equals the
\* compatibility set of that extension, also when the latest call returned
\* early (non-directory path, missing or unparseable manifest).
C27_NothingCarriedOver ==
    HasReturned =>
        LET fresh == validate_extension({}, ext, v_browser_type)
        IN  /\ v_errors = fresh.errors
            /\ v_warnings = fresh.warnings
            /\ v_detected = (IF ChecksRan THEN CompatibleBrowsers(ext) ELSE {})

\* the background object of e holds neither service_worker nor scripts
EmptyBackground(e) == e.bg_kind = "dict" /\ e.bg_sw = NoPath /\ ~e.bg_has_scripts

\* C28: the browser-specific rules produce only Warnings: for a Chrome, Edge
\* or Opera target an MV2 manifest yields an MV2-deprecation Warning and a
\* background object with neither service_worker nor scripts yields an
\* empty-background Warning; for a Firefox target an MV3 manifest yields an
\* MV3-support Warning; for an Edge target a manifest carrying
\* browser_specific_settings yields a Warning.
C28_BrowserSpecificWarnings ==
    ChecksRan =>
        LET rules == validate_browser_specifics(Blank, ext, v_browser_type)
            reported(msg) == msg \in Range(rules.warnings) /\ msg \in Range(v_warnings)
        IN  /\ rules.errors = <<>>
            /\ (v_browser_type \in {CHROME, EDGE, OPERA} /\ ext.mv = 2) =>
                   reported("Manifest v2 is deprecated - migrate to Manifest v3")
            /\ (v_browser_type \in {CHROME, EDGE, OPERA} /\ EmptyBackground(ext)) =>
                   reported("Empty 'background' object - consider adding service_worker or scripts")
            /\ (v_browser_type = FIREFOX /\ ext.mv = 3) =>
                   reported("Firefox has limited Manifest v3 support - test thoroughly")
            /\ (v_browser_type = EDGE /\ ext.bss) =>
                   reported("'browser_specific_settings' is typically for Firefox, not Edge")

(***************************************************************************)
(* Claims about the recommendations of the scoring engine                  *)
(***************************************************************************)
DefaultRecommendation == "No critical issues found - extension looks good!"

\* the rules of the claim, on record d
CriticalPattern(d) ==
    Holding({"eval", "unsafe-eval"}, Get(Get(d, "security", <<>>), "findings", <<>>)) > 0

OverFiveMb(d) == Get(Get(d, "performance", <<>>), "total_size_mb", 0) > 5

Mv2Warning(d) ==
    LET bs == Get(d, "browsers", <<>>)
    IN  \E b \in DOMAIN bs :
            "Manifest v2 is deprecated - migrate to Manifest v3"
                \in Range(Get(bs[b], "warnings", <<>>))

\* C29: the recommendations list returned by calculate_final_score is never
\* empty: it is the single positive default recommendation exactly when no rule
\* applies, and otherwise holds the recommendations of the rules that fired: an
\* urgent one for an eval / unsafe-eval finding, a performance one when the
\* total size exceeds 5MB, and a migration one (so not the positive default)
\* when an MV2-deprecation warning is present.
C29_Recommendations ==
    \A k \in 1..Len(score_log) :
        LET d == score_log[k].data
            recs == score_log[k].result.recommendations
        IN  /\ recs # <<>>
            /\ DefaultRecommendation \in Range(recs) =>
                   /\ recs = <<DefaultRecommendation>>
                   /\ ~CriticalPattern(d) /\ ~OverFiveMb(d) /\ ~Mv2Warning(d)
            /\ CriticalPattern(d) =>
                   \E r \in {"CRITICAL: Remove eval() usage - Chrome Web Store will reject this",
                              "CRITICAL: Remove 'unsafe-eval' from CSP"} : r \in Range(recs)
            /\ OverFiveMb(d) =>
                   "Reduce extension size - consider minification and removing unused assets"
                       \in Range(recs)
            /\ Mv2Warning(d) => recs # <<DefaultRecommendation>>

(***************************************************************************)
(* src/dependency_checker.py: DependencyChecker                            *)
(*                                                                         *)
(* A version and a file name are sequences of characters, so that          *)
(* str.startswith and the regular expressions are computed.  analyze       *)
(* returns sorted(set(...)) of each list: a list fixed by its set of       *)
(* entries, modelled as that set.                                          *)
(***************************************************************************)
MaxDeclared == 1
MaxBundled == 2

StartsWith(s, prefix) ==
    /\ Len(prefix) <= Len(s)
    /\ SubSeq(s, 1, Len(prefix)) = prefix

EndsWith(s, suffix) ==
    /\ Len(suffix) <= Len(s)
    /\ SubSeq(s, Len(s) - Len(suffix) + 1, Len(s)) = suffix

Upgrade35 == "Upgrade to >= 3.5.0"
Upgrade41721 == "Upgrade to >= 4.17.21"

KNOWN_VULNERABLE ==
    [lib \in {"jquery", "lodash"} |->
        IF lib = "jquery"
        THEN << <<<<"1", ".">>, Upgrade35>>, <<<<"2", ".">>, Upgrade35>>, <<<<"3", ".", "0">>, Upgrade35>>,
                <<<<"3", ".", "1">>, Upgrade35>>, <<<<"3", ".", "2">>, Upgrade35>>, <<<<"3", ".", "3">>, Upgrade35>>,
                <<<<"3", ".", "4">>, Upgrade35>> >>
        ELSE << <<<<"4", ".", "1", "7", ".", "2", "0">>, Upgrade41721>>, <<<<"4", ".", "1", "7", ".", "1", "9">>, Upgrade41721>> >>]

\* each pattern is stem, then [-\.], then (\d+\.\d+\.\d+)
LIB_PATTERNS ==
    << [stem |-> <<"j", "q", "u", "e", "r", "y">>, lib |-> "jquery"],
       [stem |-> <<"l", "o", "d", "a", "s", "h">>, lib |-> "lodash"],
       [stem |-> <<"m", "o", "m", "e", "n", "t">>, lib |-> "moment"] >>

DigitChars == {"0", "1", "2", "3", "4", "5", "6", "7", "8", "9"}

\* str.lower() on the letters the file names use
Lower(c) ==
    CASE c = "J" -> "j"
      [] c = "Q" -> "q"
      [] c = "L" -> "l"
      [] c = "M" -> "m"
      [] OTHER -> c

lower(s) == [k \in 1..Len(s) |-> Lower(s[k])]

\* the last position of the run of digits starting at i (i - 1 when there is none)
RECURSIVE DigitsEnd(_, _)
DigitsEnd(s, i) ==
    IF i <= Len(s) /\ s[i] \in DigitChars THEN DigitsEnd(s, i + 1) ELSE i - 1

\* the match of stem[-\.](\d+\.\d+\.\d+) starting at position i: <<version>> or None
MatchAt(s, i, stem) ==
    LET a == i + Len(stem)
        d1 == DigitsEnd(s, a + 1)
        d2 == DigitsEnd(s, d1 + 2)
        d3 == DigitsEnd(s, d2 + 2)
    IN  IF /\ a <= Len(s)
           /\ SubSeq(s, i, a - 1) = stem
           /\ s[a] \in {"-", "."}
           /\ d1 >= a + 1
           /\ d1 + 1 <= Len(s) /\ s[d1 + 1] = "."
           /\ d2 >= d1 + 2
           /\ d2 + 1 <= Len(s) /\ s[d2 + 1] = "."
           /\ d3 >= d2 + 2
        THEN Given(SubSeq(s, a + 1, d3))
        ELSE None

\* re.search(pattern, name): the leftmost match
re_search(stem, name) ==
    LET starts == {i \in 1..Len(name) : MatchAt(name, i, stem) # None}
    IN  IF starts = {} THEN None
        ELSE MatchAt(name, CHOOSE i \in starts : \A j \in starts : i <= j, stem)

VulnerableMessage(lib, version, recommendation) ==
    <<lib, version, " may be vulnerable. ", recommendation>>

BundledMessage(lib, version, file) ==
    <<lib, version, " (bundled file: ", file, ")">>

InvalidJson == <<"package.json is invalid JSON">>

check_lib_version(lib, version) ==
    IF lib \in DOMAIN KNOWN_VULNERABLE
    THEN {VulnerableMessage(lib, version, KNOWN_VULNERABLE[lib][k][2]) :
              k \in {j \in 1..Len(KNOWN_VULNERABLE[lib]) :
                        StartsWith(version, KNOWN_VULNERABLE[lib][j][1])}}
    ELSE {}

check_versions(deps) ==
    UNION {check_lib_version(lib, deps[lib]) : lib \in DOMAIN deps}

\* the *.js files of the directory, with the libraries their names match
Bundled(files) ==
    {[file |-> f, lib |-> LIB_PATTERNS[k].lib,
      version |-> re_search(LIB_PATTERNS[k].stem, lower(f))[1]] :
        <<f, k>> \in {<<g, j>> \in files \X (1..Len(LIB_PATTERNS)) :
                         /\ EndsWith(g, <<".", "j", "s">>)
                         /\ re_search(LIB_PATTERNS[j].stem, lower(g)) # None}}

\* analyze(): detected takes what _check_versions returns for the declared
\* dependencies; warnings takes the invalid-JSON note and what
\* _check_lib_version returns for the bundled files
DependencyChecker_analyze(pkg, files) ==
    LET declared == IF pkg.kind = "object"
                    THEN check_versions(pkg.dependencies)
                             \cup check_versions(pkg.devDependencies)
                    ELSE {}
        invalid == IF pkg.kind = "invalid" THEN {InvalidJson} ELSE {}
        bundled == Bundled(files)
    IN  IF pkg.kind = "array"
        THEN [outcome |-> "raised", message |-> "'list' object has no attribute 'get'"]
        ELSE [outcome |-> "returned",
              detected |-> declared \cup
                           {BundledMessage(b.lib, b.version, b.file) : b \in bundled},
              warnings |-> invalid \cup
                           UNION {check_lib_version(b.lib, b.version) : b \in bundled}]

DeclaredLibs == {"jquery", "lodash", "moment"}

DeclaredVersions == {<<"3", ".", "4", ".", "1">>, <<"3", ".", "5", ".", "0">>, <<"4", ".", "1", "7", ".", "2", "0">>}

Dependencies ==
    UNION {[D -> DeclaredVersions] :
              D \in {S \in SUBSET DeclaredLibs : Cardinality(S) <= MaxDeclared}}

PackageJsons ==
    {[kind |-> "absent"], [kind |-> "invalid"], [kind |-> "array"]} \cup
    {[kind |-> "object", dependencies |-> deps, devDependencies |-> dev] :
        deps \in Dependencies, dev \in Dependencies}

FileNames ==
    {<<"j", "Q", "u", "e", "r", "y", "-", "1", ".", "1", "2", ".", "4", ".", "m", "i", "n", ".", "j", "s">>,
     <<"j", "q", "u", "e", "r", "y", "-", "3", ".", "5", ".", "0", ".", "j", "s">>,
     <<"l", "o", "d", "a", "s", "h", ".", "4", ".", "1", "7", ".", "2", "0", ".", "j", "s">>,
     <<"m", "o", "m", "e", "n", "t", "-", "2", ".", "0", ".", "0", ".", "j", "s">>,
     <<"j", "q", "u", "e", "r", "y", "-", "1", ".", "2", ".", "3", ".", "c", "s", "s">>,
     <<"j", "q", "u", "e", "r", "y", ".", "m", "i", "n", ".", "j", "s">>}

FileTrees == {S \in SUBSET FileNames : Cardinality(S) <= MaxBundled}

DepInit ==
    /\ dep_call = NoCall
    /\ size_call = NoCall
    /\ ScoringIdle
    /\ OthersIdle

\* DependencyChecker(path).analyze(), called once
AnalyzeDependencies ==
    /\ dep_call = NoCall
    /\ \E pkg \in PackageJsons, files \in FileTrees :
          dep_call' = [outcome |-> "called", package_json |-> pkg, files |-> files,
                       result |-> DependencyChecker_analyze(pkg, files)]
    /\ UNCHANGED <<ext, validatorVars, pipelineVars, d_log, scoringVars, size_call>>

DepNext == AnalyzeDependencies

DepSpec == DepInit /\ [][DepNext]_vars

\* whether the version starts with a known-vulnerable prefix of the library
KnownVulnerable(lib, version) ==
    /\ lib \in DOMAIN KNOWN_VULNERABLE
    /\ \E k \in 1..Len(KNOWN_VULNERABLE[lib]) :
           StartsWith(version, KNOWN_VULNERABLE[lib][k][1])

\* the (library, version) pairs of both sources of a call
DeclaredPairs(pkg) ==
    IF pkg.kind = "object"
    THEN {<<lib, pkg.dependencies[lib]>> : lib \in DOMAIN pkg.dependencies}
             \cup {<<lib, pkg.devDependencies[lib]>> : lib \in DOMAIN pkg.devDependencies}
    ELSE {}

BundledPairs(files) == {<<b.lib, b.version>> : b \in Bundled(files)}

WarnedPairs(warnings) == {<<w[1], w[2]>> : w \in {x \in warnings : Len(x) = 4}}

\* C30: a dependency declared in package.json (dependencies or
\* devDependencies) and a bundled library detected by file name each produce an
\* entry in the returned warnings whenever the version starts with a
\* known-vulnerable prefix of that library, and no warning otherwise.
C30_BothSourcesFlagged ==
    (dep_call.outcome = "called" /\ dep_call.result.outcome = "returned") =>
        LET pairs == DeclaredPairs(dep_call.package_json) \cup BundledPairs(dep_call.files)
        IN  WarnedPairs(dep_call.result.warnings)
                = {p \in pairs : KnownVulnerable(p[1], p[2])}

\* the bundled source alone: every vulnerable bundled library is in the
\* warnings, and every version warning is about a vulnerable pair of the call
DepBundledFlagged ==
    (dep_call.outcome = "called" /\ dep_call.result.outcome = "returned") =>
        LET pairs == DeclaredPairs(dep_call.package_json) \cup BundledPairs(dep_call.files)
        IN  /\ {p \in BundledPairs(dep_call.files) : KnownVulnerable(p[1], p[2])}
                   \subseteq WarnedPairs(dep_call.result.warnings)
            /\ WarnedPairs(dep_call.result.warnings)
                   \subseteq {p \in pairs : KnownVulnerable(p[1], p[2])}

====
